---- MODULE Spec2Model ----
(***************************************************************************)
(* Expense-tracker backend: retention-window cleanup engine                *)
(* (DataRetentionService, the /api/data-retention routes and their         *)
(* middleware chain) and the weekly-analysis controller with its upsert.   *)
(*                                                                         *)
(* Time.  An instant is an integer: Instant(y, m, d, h) with m the         *)
(* JavaScript month index 0..11, d the day of month and h a tick inside    *)
(* the day (0 = midnight, 1 = any later time of the day, up to             *)
(* 23:59:59.999).  The server clock runs in UTC, so `new Date("Y-M-D")`    *)
(* and `new Date(Y, M, D)` denote the same instant.                        *)
(***************************************************************************)
EXTENDS Integers, Sequences, FiniteSets, TLC

VARIABLES
    now,          \* the current date [y, m, d] (new Date())
    expenseBuild, \* which ExpenseModel.find is deployed: "named" | "part006"
    expenses,     \* expense collection: set of documents
    nextExpId,    \* next fresh expense document id
    users,        \* user collection: owner -> document
    analyses,     \* weeklyAnalyses collection: set of documents
    nextAnId,     \* next fresh analysis document id
    runs,         \* cleanupUser invocations in flight: caller -> frame
    quiet,        \* owner -> N of the last completed cleanupUser(owner, N)
                  \*   with no store write since (0: none)
    limiter,      \* cleanupRateLimit hit counter per owner (current window)
    lastReq,      \* the last request answered by a cleanup or settings route
    reqCount,     \* owner -> number of POST /cleanup requests answered
    preview,      \* owner -> last getCleanupPreview response
    previewCalls, \* owner -> consecutive previews since the last store write
    global,       \* the cleanupAllUsers invocation
    cutoffIn,     \* input of the last calculateCutoffDate call [now, N]
    cutoffOut,    \* its result [y, m, d]
    areqs,        \* weekly-analysis requests in flight: slot -> frame
    analysisBuild, \* which analysis controller is deployed: "part001" | "part002"
    adminLimiter, \* adminCleanupRateLimit hit counter of key 'global-cleanup'
    generalLimiter, \* dataRetentionRateLimit hit counter per owner
    job,          \* the sendDailySummaries / sendWeeklyReports invocation
    scheduler,    \* the SchedulerService object and the cron tasks it made
    putReq        \* the PUT /settings request that is between its two awaits

vars == <<now, expenseBuild, expenses, nextExpId, users, analyses, nextAnId,
          runs, quiet, limiter, lastReq, reqCount, preview, previewCalls,
          global, cutoffIn, cutoffOut, areqs, analysisBuild, adminLimiter,
          generalLimiter, job, scheduler, putReq>>

-----------------------------------------------------------------------------
(* Bounds *)

MaxExpenses == 2      \* expense documents ever created in one behaviour
MaxRequests == 3      \* POST /cleanup requests per owner
MaxPreviewCalls == 3  \* consecutive previews counted per owner
MaxAnalysisReqs == 2  \* weekly-analysis requests that may overlap
MaxAnalyses == 2      \* analysis documents ever created in one behaviour
MaxSuggestions == 2   \* distinct aiSuggestions payloads
MaxDeleteFailures == 2  \* deletes that fail in one run of cleanupUserExpenses
MaxSendFailures == 2  \* sends that fail in one run of sendDailySummaries
MaxSchedulerCalls == 7  \* calls of the lifecycle methods of the scheduler
MaxJobUsers == 2      \* users eligible for a notification job
MaxSettingsRequests == 6  \* PUT /settings requests per owner and window

Owners == {"A", "B"}
UserOrder == <<"A", "B">>       \* order of the getAllActive() snapshot
NoUser == "none"                 \* userId undefined

-----------------------------------------------------------------------------
(* Dates *)

Instant(y, m, d, h) == ((y * 12 + m) * 31 + (d - 1)) * 2 + h

DateInstant(date) == Instant(date.y, date.m, date.d, 0)

\* Date.prototype.setHours(23, 59, 59, 999)
EndOfDay(t) == t - (t % 2) + 1

Epoch == Instant(1970, 0, 1, 0)

\* a cutoff whose month wraps around without the year following it
calculateCutoffDateNoCarry(nowDate, retentionMonths) ==
    [y |-> nowDate.y, m |-> (nowDate.m - retentionMonths) % 12, d |-> 1]

\* new Date(now.getFullYear(), now.getMonth() - retentionMonths, 1):
\* the Date constructor carries an out-of-range month index into the year.
calculateCutoffDate(nowDate, retentionMonths) ==
    LET mi == nowDate.m - retentionMonths
    IN  [y |-> nowDate.y + (mi \div 12), m |-> mi % 12, d |-> 1]

\* Calendar subtraction, one month at a time (the reference for the cutoff).
PrevMonth(ym) == IF ym.m = 0 THEN [y |-> ym.y - 1, m |-> 11]
                             ELSE [y |-> ym.y, m |-> ym.m - 1]

RECURSIVE MonthsBefore(_, _)
MonthsBefore(ym, n) == IF n = 0 THEN ym ELSE MonthsBefore(PrevMonth(ym), n - 1)

MonthOf(t) == (t \div 2) \div 31      \* y * 12 + m of an instant

-----------------------------------------------------------------------------
(* Documents *)

ConfirmationText == "DELETE_MY_DATA"
Confirmations == {"DELETE_MY_DATA", "GLOBAL_CLEANUP_CONFIRMED", ""}

defaultRetentionMonths == 3

\* user.dataRetention?.months || this.defaultRetentionMonths
RetentionOf(user) == IF user.months = 0 THEN defaultRetentionMonths ELSE user.months

\* ExpenseModel.find, date-range filter.  FirestoreExpense.js queries
\* date >= start and date <= end; the other ExpenseModel moves the end to
\* 23:59:59.999 of its day and filters client-side.
find(build, docs, startT, endT, userId) ==
    LET endB == IF build = "part006" THEN EndOfDay(endT) ELSE endT
    IN  {e \in docs : /\ (userId = NoUser \/ e.userId = userId)
                      /\ e.date >= startT
                      /\ e.date <= endB}

\* client-side sort, sortBy 'date', sortOrder 'desc'
RECURSIVE SortByDateDesc(_)
SortByDateDesc(S) ==
    IF S = {} THEN <<>>
    ELSE LET top == CHOOSE e \in S :
                      \A f \in S : f.date < e.date \/ (f.date = e.date /\ f.id <= e.id)
         IN  <<top>> \o SortByDateDesc(S \ {top})

getByDateRange(build, docs, startT, endT, userId) ==
    SortByDateDesc(find(build, docs, startT, endT, userId))

\* Expense.delete(id): delete-by-id of the expense store
ExpenseDelete(docs, id) == {e \in docs : e.id # id}

\* WeeklyAnalysis.getOlderThan(cutoffDate, userId): the owner's analyses
\* whose week lies entirely before the cutoff
getOlderThan(docs, cutoffT, userId) ==
    {a \in docs : a.userId = userId /\ EndOfDay(a.weekStartDate + 12) < cutoffT}

RECURSIVE SumAmounts(_)
SumAmounts(S) ==
    IF S = {} THEN 0
    ELSE LET e == CHOOSE x \in S : TRUE IN e.amount + SumAmounts(S \ {e})

SeqToSet(q) == {q[k] : k \in 1..Len(q)}

\* getCleanupPreview(userId, retentionMonths)
getCleanupPreview(build, docs, nowDate, userId, retentionMonths) ==
    LET cutoffT == DateInstant(calculateCutoffDate(nowDate, retentionMonths))
        expensesToDelete == getByDateRange(build, docs, Epoch, cutoffT, userId)
        S == SeqToSet(expensesToDelete)
        monthKeys == {MonthOf(e.date) : e \in S}
    IN  [cutoffDate |-> cutoffT,
         retentionMonths |-> retentionMonths,
         totalExpenses |-> Len(expensesToDelete),
         totalAmount |-> SumAmounts(S),
         monthlyBreakdown |->
            {[month |-> k,
              count |-> Cardinality({e \in S : MonthOf(e.date) = k}),
              amount |-> SumAmounts({e \in S : MonthOf(e.date) = k})] : k \in monthKeys},
         oldestExpense |-> IF S = {} THEN 0
                           ELSE CHOOSE t \in {e.date : e \in S} : \A e \in S : t <= e.date,
         newestExpenseToDelete |-> IF S = {} THEN 0
                           ELSE CHOOSE t \in {e.date : e \in S} : \A e \in S : t >= e.date]

NoPreview == [cutoffDate |-> 0, retentionMonths |-> 0, totalExpenses |-> 0,
              totalAmount |-> 0, monthlyBreakdown |-> {}, oldestExpense |-> 0,
              newestExpenseToDelete |-> 0]

-----------------------------------------------------------------------------
(* cleanupUser: DataRetentionService.cleanupUser and its two sub-steps *)

\* One frame per caller of cleanupUser: the manual trigger
\* (schedulerService.triggerUserCleanup, which POST /cleanup calls) and the
\* loop of cleanupAllUsers.
RunIds == {"manual", "global"}

IdleRun == [pc |-> "idle", userId |-> NoUser, months |-> 0, cutoff |-> 0,
            list |-> <<>>, i |-> 0, deleted |-> 0, anDeleted |-> 0,
            skipped |-> FALSE, kind |-> "none", conf |-> "",
            pre |-> FALSE, clean |-> FALSE, overlapped |-> FALSE,
            qNextId |-> 0, anFault |-> FALSE, kept |-> {}]

\* A store write by anyone but run `self` ("client": not a run) ends the quiet
\* period of every owner and of every other run that started in one.
WriteBy(self, rs) ==
    [r \in RunIds |-> IF r = self THEN rs[r]
                    ELSE [rs[r] EXCEPT !.pre = FALSE, !.clean = FALSE]]

\* An expense write makes the expense set read by every analysis request
\* in flight (or answered and not yet collected) out of date.
MarkStale(fs) ==
    [q \in DOMAIN fs |-> IF fs[q].pc = "idle" THEN fs[q]
                         ELSE [fs[q] EXCEPT !.stale = TRUE]]

NoQuiet == [o \in Owners |-> 0]
NoCalls == [o \in Owners |-> 0]

\* the frame of cleanupUser(userId, retentionMonths) at its call
CallFrame(rs, userId, retentionMonths, kind, conf) ==
    [IdleRun EXCEPT !.pc = "expenses", !.userId = userId,
                    !.months = retentionMonths, !.kind = kind,
                    !.conf = conf,
                    !.pre = (quiet[userId] = retentionMonths),
                    !.clean = TRUE,
                    !.overlapped = \E r2 \in RunIds :
                        /\ rs[r2].pc \notin {"idle", "done"}
                        /\ rs[r2].userId = userId
                        /\ rs[r2].months = retentionMonths]

CallCleanupUser(r, userId, retentionMonths, kind, conf) ==
    [r2 \in RunIds |->
        IF r2 = r THEN CallFrame(runs, userId, retentionMonths, kind, conf)
        ELSE IF /\ runs[r2].pc \notin {"idle", "done"}
                /\ runs[r2].userId = userId
                /\ runs[r2].months = retentionMonths
             THEN [runs[r2] EXCEPT !.overlapped = TRUE]
             ELSE runs[r2]]

\* a query that returns the newest matching expense only
cleanupUserExpensesQueryFirstBatch(r) ==
    /\ runs[r].pc = "expenses"
    /\ LET cutoffT == DateInstant(calculateCutoffDate(now, runs[r].months))
           all == getByDateRange(expenseBuild, expenses, Epoch, cutoffT,
                                 runs[r].userId)
           expensesToDelete == IF all = <<>> THEN all ELSE <<all[1]>>
       IN  runs' = [runs EXCEPT ![r] =
                [@ EXCEPT !.cutoff = cutoffT, !.list = expensesToDelete,
                          !.qNextId = nextExpId,
                          !.pc = IF expensesToDelete = <<>> THEN "analysis"
                                 ELSE "deleting"]]
    /\ UNCHANGED <<now, expenseBuild, expenses, nextExpId, users, analyses,
                   nextAnId, quiet, limiter, lastReq, reqCount, preview,
                   previewCalls, global, cutoffIn, cutoffOut, areqs,
                   analysisBuild, adminLimiter, generalLimiter, job, scheduler,
                   putReq>>

\* cleanupUserExpenses, up to the end of `await Expense.getByDateRange(...)`
cleanupUserExpensesQuery(r) ==
    /\ runs[r].pc = "expenses"
    /\ LET cutoffT == DateInstant(calculateCutoffDate(now, runs[r].months))
           expensesToDelete == getByDateRange(expenseBuild, expenses, Epoch,
                                              cutoffT, runs[r].userId)
       IN  runs' = [runs EXCEPT ![r] =
                [@ EXCEPT !.cutoff = cutoffT, !.list = expensesToDelete,
                          !.qNextId = nextExpId,
                          !.pc = IF expensesToDelete = <<>> THEN "analysis"
                                 ELSE "deleting"]]
    /\ UNCHANGED <<now, expenseBuild, expenses, nextExpId, users, analyses,
                   nextAnId, quiet, limiter, lastReq, reqCount, preview,
                   previewCalls, global, cutoffIn, cutoffOut, areqs,
                   analysisBuild, adminLimiter, generalLimiter, job, scheduler,
                   putReq>>

\* const batchSize = 50
batchSize == 50

\* where the batch loop goes on after the k-th expense of n: the analysis
\* sub-step after the last one, the delay after the last one of a batch
AfterDelete(k, n) ==
    IF k = n THEN "analysis"
    ELSE IF k % batchSize = 0 THEN "delay" ELSE "deleting"

\* await new Promise(resolve => setTimeout(resolve, 100)) between batches
cleanupUserExpensesBatchDelay(r) ==
    /\ runs[r].pc = "delay"
    /\ runs' = [runs EXCEPT ![r] = [@ EXCEPT !.pc = "deleting"]]
    /\ UNCHANGED <<now, expenseBuild, expenses, nextExpId, users, analyses,
                   nextAnId, quiet, limiter, lastReq, reqCount, preview,
                   previewCalls, global, cutoffIn, cutoffOut, areqs,
                   analysisBuild, adminLimiter, generalLimiter, job, scheduler,
                   putReq>>

\* one iteration of the batch loop: await Expense.delete(expense.id);
\* deletedCount++
cleanupUserExpensesDelete(r) ==
    /\ runs[r].pc = "deleting"
    /\ LET k == runs[r].i + 1
           expense == runs[r].list[k]
       IN  /\ expenses' = ExpenseDelete(expenses, expense.id)
           /\ runs' = WriteBy(r, [runs EXCEPT ![r] =
                  [@ EXCEPT !.i = k, !.deleted = @ + 1,
                            !.pc = AfterDelete(k, Len(runs[r].list))]])
    /\ quiet' = NoQuiet
    /\ previewCalls' = NoCalls
    /\ global' = [global EXCEPT !.disturbed = @ \/ runs[r].kind # "global"]
    /\ areqs' = MarkStale(areqs)
    /\ UNCHANGED <<now, expenseBuild, nextExpId, users, analyses, nextAnId,
                   limiter, lastReq, reqCount, preview, cutoffIn, cutoffOut,
                   analysisBuild, adminLimiter, generalLimiter, job, scheduler,
                   putReq>>

\* cleanupUserAnalysis: getOlderThan, then delete each analysis found
cleanupUserAnalysis(r) ==
    /\ runs[r].pc = "analysis"
    /\ LET cutoffT == DateInstant(calculateCutoffDate(now, runs[r].months))
           oldAnalysis == getOlderThan(analyses, cutoffT, runs[r].userId)
       IN  /\ analyses' = analyses \ oldAnalysis
           /\ runs' = IF oldAnalysis = {}
                THEN [runs EXCEPT ![r] = [@ EXCEPT !.pc = "return"]]
                ELSE WriteBy(r, [runs EXCEPT ![r] =
                        [@ EXCEPT !.pc = "return",
                                  !.anDeleted = Cardinality(oldAnalysis)]])
           /\ quiet' = IF oldAnalysis = {} THEN quiet ELSE NoQuiet
           /\ previewCalls' = IF oldAnalysis = {} THEN previewCalls ELSE NoCalls
           /\ global' = [global EXCEPT !.disturbed =
                            @ \/ (oldAnalysis # {} /\ runs[r].kind # "global")]
    /\ UNCHANGED <<now, expenseBuild, expenses, nextExpId, users, nextAnId,
                   limiter, lastReq, reqCount, preview, cutoffIn, cutoffOut,
                   areqs, analysisBuild, adminLimiter, generalLimiter, job, scheduler,
                   putReq>>

\* cleanupUser builds its result and returns it
cleanupUserReturn(r) ==
    /\ runs[r].pc = "return"
    /\ runs' = [runs EXCEPT ![r] = [@ EXCEPT !.pc = "done"]]
    /\ quiet' = [quiet EXCEPT ![runs[r].userId] =
                    IF runs[r].clean THEN runs[r].months ELSE 0]
    /\ UNCHANGED <<now, expenseBuild, expenses, nextExpId, users, analyses,
                   nextAnId, limiter, lastReq, reqCount, preview, previewCalls,
                   global, cutoffIn, cutoffOut, areqs, analysisBuild, adminLimiter,
          generalLimiter, job, scheduler,
                   putReq>>

\* schedulerService.triggerUserCleanup(userId, retentionMonths): the call
triggerUserCleanup(userId, retentionMonths) ==
    /\ runs["manual"].pc = "idle"
    /\ runs' = CallCleanupUser("manual", userId, retentionMonths, "manual", "")
    /\ UNCHANGED <<now, expenseBuild, expenses, nextExpId, users, analyses,
                   nextAnId, quiet, limiter, lastReq, reqCount, preview,
                   previewCalls, global, cutoffIn, cutoffOut, areqs,
                   analysisBuild, adminLimiter, generalLimiter, job, scheduler,
                   putReq>>

\* ... and its return to the caller
triggerUserCleanupReturn(r) ==
    /\ runs[r].pc = "done"
    /\ runs[r].kind = "manual"
    /\ runs' = [runs EXCEPT ![r] = IdleRun]
    /\ UNCHANGED <<now, expenseBuild, expenses, nextExpId, users, analyses,
                   nextAnId, quiet, limiter, lastReq, reqCount, preview,
                   previewCalls, global, cutoffIn, cutoffOut, areqs,
                   analysisBuild, adminLimiter, generalLimiter, job, scheduler,
                   putReq>>

-----------------------------------------------------------------------------
(* POST /api/data-retention/cleanup *)

\* req.body.months of a PUT /settings request: t is the JavaScript type
\* ("text": a string that is no number), v the number it denotes, rounded
\* down, and int whether that number is an integer
Months(t, v, int) == [t |-> t, v |-> v, int |-> int]

NoMonths == Months("undefined", 0, FALSE)

NoReq == [o |-> NoUser, conf |-> "", status |-> 0, gate |-> "none",
          months |-> NoMonths, prev |-> "none"]

\* status 0: the request is in its handler, not answered yet
Answer(o, conf, status, gate) ==
    [o |-> o, conf |-> conf, status |-> status, gate |-> gate,
     months |-> NoMonths, prev |-> "none"]

\* cleanupRateLimit: max cleanup operations per hour per user
CleanupRateLimitMax == 2

\* a gate that lets any non-empty confirmation pass
requireCleanupConfirmationAny(confirmation) == confirmation # ""

\* requireCleanupConfirmation: does the request pass the gate
requireCleanupConfirmation(confirmation) == confirmation = ConfirmationText

\* Date.now() - new Date(user.createdAt).getTime(), in days.  UserModel.create
\* stores createdAt as FieldValue.serverTimestamp() and findById returns the
\* stored Timestamp object as it is; a Date built from an object that is no
\* Date converts the object's primitive value, which is no date string, so
\* the Date is invalid and getTime() is NaN.  A createdAt that is a Date or
\* an ISO string gives the age of the account.
accountAge(user) ==
    [nan |-> user.createdAt = "Timestamp",
     days |-> IF user.oldEnough THEN 8 ELSE 1]

\* minAccountAge, in days
MinAccountAgeDays == 7

\* x < n of JavaScript numbers: false when x is NaN
LessThan(x, n) == ~x.nan /\ x.days < n

\* checkDataRetentionPermissions: the status it answers with, 0 for next()
checkDataRetentionPermissions(user) ==
    IF user.status \in {"suspended", "banned"} THEN 403
    ELSE IF LessThan(accountAge(user), MinAccountAgeDays) THEN 403
    ELSE 0

\* a limiter that counts the requests of all owners under one key
cleanupRateLimitKeyShared(o) == "A"

\* keyGenerator of cleanupRateLimit: req.userId
cleanupRateLimitKey(o) == o

\* The middleware chain of the route up to the start of the handler:
\* cleanupRateLimit, checkDataRetentionPermissions,
\* requireCleanupConfirmation, then findById and triggerUserCleanup.
PostCleanup(o, conf) ==
    /\ reqCount[o] < MaxRequests
    /\ LET key == cleanupRateLimitKey(o)
           hits == limiter[key] + 1
       IN  /\ reqCount' = [reqCount EXCEPT ![o] = @ + 1]
           /\ limiter' = [limiter EXCEPT ![key] = hits]
           /\ IF hits > CleanupRateLimitMax
              THEN /\ lastReq' = Answer(o, conf, 429, "rateLimit")
                   /\ runs' = runs
              ELSE IF checkDataRetentionPermissions(users[o]) # 0
              THEN /\ lastReq' = Answer(o, conf,
                          checkDataRetentionPermissions(users[o]), "permissions")
                   /\ runs' = runs
              ELSE IF ~requireCleanupConfirmation(conf)
              THEN /\ lastReq' = Answer(o, conf, 400, "confirmation")
                   /\ runs' = runs
              ELSE /\ lastReq' = Answer(o, conf, 0, "handler")
                   /\ runs["manual"].pc = "idle"
                   /\ runs' = CallCleanupUser("manual", o, RetentionOf(users[o]),
                                              "api", conf)
    /\ UNCHANGED <<now, expenseBuild, expenses, nextExpId, users, analyses,
                   nextAnId, quiet, preview, previewCalls, global, cutoffIn,
                   cutoffOut, areqs, analysisBuild, adminLimiter, generalLimiter, job, scheduler,
                   putReq>>

\* the handler after triggerUserCleanup returned: lastCleanup, then 200
PostCleanupFinish(r) ==
    /\ runs[r].pc = "done"
    /\ runs[r].kind = "api"
    /\ users' = [users EXCEPT ![runs[r].userId].lastCleanup = DateInstant(now)]
    /\ lastReq' = Answer(runs[r].userId, runs[r].conf, 200, "handler")
    /\ runs' = [runs EXCEPT ![r] = IdleRun]
    /\ UNCHANGED <<now, expenseBuild, expenses, nextExpId, analyses, nextAnId,
                   quiet, limiter, reqCount, preview, previewCalls, global,
                   cutoffIn, cutoffOut, areqs, analysisBuild, adminLimiter, generalLimiter, job, scheduler,
                   putReq>>

\* windowMs of cleanupRateLimit has passed for a key: its counter restarts
cleanupRateLimitWindowEnds(o) ==
    /\ limiter[o] > 0
    /\ limiter' = [limiter EXCEPT ![o] = 0]
    /\ UNCHANGED <<now, expenseBuild, expenses, nextExpId, users, analyses,
                   nextAnId, runs, quiet, lastReq, reqCount, preview,
                   previewCalls, global, cutoffIn, cutoffOut, areqs,
                   analysisBuild, adminLimiter, generalLimiter, job, scheduler,
                   putReq>>

-----------------------------------------------------------------------------
(* PUT /api/data-retention/settings *)

\* missing, 0, 1, 1.5, 12, 13, "5", "abc"
SettingsInputs ==
    {NoMonths, Months("number", 0, TRUE), Months("number", 1, TRUE),
     Months("number", 1, FALSE), Months("number", 12, TRUE),
     Months("number", 13, TRUE), Months("string", 5, TRUE),
     Months("text", 0, FALSE)}

\* dataRetentionRateLimit: max operations per 15 minutes per user
DataRetentionRateLimitMax == 5

\* ToNumber(months) is a number and not NaN
IsNumeric(months) == months.t \in {"number", "string"}

\* validateRetentionChange: the status it answers with, 0 for next();
\* `months < 1` and `months > 12` are false for undefined and for text
validateRetentionChange(months) ==
    IF IsNumeric(months) /\ months.v < 1 THEN 400
    ELSE IF IsNumeric(months)
            /\ (months.v > 12 \/ (months.v = 12 /\ ~months.int)) THEN 400
    ELSE 0

\* retentionSettingsSchema.validate(req.body):
\* Joi.number().integer().min(1).max(12).required(); a numeric string is
\* converted to its number
retentionSettingsSchema(months) ==
    [error |-> ~(/\ IsNumeric(months) /\ months.int
                 /\ months.v >= 1 /\ months.v <= 12),
     value |-> months.v]

\* a handler that stores the number sent without validating it
PutSettingsUnvalidated(o, months) ==
    /\ generalLimiter[o] < MaxSettingsRequests
    /\ generalLimiter' = [generalLimiter EXCEPT ![o] = @ + 1]
    /\ users' = [users EXCEPT ![o].months = months.v]
    /\ lastReq' = [Answer(o, "", 200, "settings") EXCEPT !.months = months]
    /\ UNCHANGED <<now, expenseBuild, expenses, nextExpId, analyses, nextAnId,
                   runs, quiet, limiter, reqCount, preview, previewCalls,
                   global, cutoffIn, cutoffOut, areqs, analysisBuild,
                   adminLimiter, job, scheduler,
                   putReq>>

\* The middleware chain of the route and its handler: dataRetentionRateLimit,
\* checkDataRetentionPermissions, validateRetentionChange, then the schema,
\* findById and findByIdAndUpdate({ dataRetention: updatedSettings }).
PutSettings(o, months) ==
    /\ generalLimiter[o] < MaxSettingsRequests
    /\ LET hits == generalLimiter[o] + 1
           answer(status, gate) ==
               [Answer(o, "", status, gate) EXCEPT !.months = months]
       IN  /\ generalLimiter' = [generalLimiter EXCEPT ![o] = hits]
           /\ IF hits > DataRetentionRateLimitMax
              THEN /\ lastReq' = answer(429, "settingsRateLimit")
                   /\ users' = users
              ELSE IF checkDataRetentionPermissions(users[o]) # 0
              THEN /\ lastReq' = answer(checkDataRetentionPermissions(users[o]),
                                        "permissions")
                   /\ users' = users
              ELSE IF validateRetentionChange(months) # 0
              THEN /\ lastReq' = answer(validateRetentionChange(months),
                                        "validateRetentionChange")
                   /\ users' = users
              ELSE IF retentionSettingsSchema(months).error
              THEN /\ lastReq' = answer(400, "schema")
                   /\ users' = users
              ELSE /\ lastReq' = answer(200, "settings")
                   /\ users' = [users EXCEPT ![o].months =
                                    retentionSettingsSchema(months).value]
    /\ UNCHANGED <<now, expenseBuild, expenses, nextExpId, analyses, nextAnId,
                   runs, quiet, limiter, reqCount, preview, previewCalls,
                   global, cutoffIn, cutoffOut, areqs, analysisBuild,
                   adminLimiter, job, scheduler,
                   putReq>>

-----------------------------------------------------------------------------
(* GET /api/data-retention/preview *)

\* a preview that removes what it reports
GetPreviewAndDelete(o) ==
    /\ previewCalls[o] < MaxPreviewCalls
    /\ LET p == getCleanupPreview(expenseBuild, expenses, now, o,
                                  RetentionOf(users[o]))
       IN  /\ preview' = [preview EXCEPT ![o] = p]
           /\ expenses' = expenses \ find(expenseBuild, expenses, Epoch,
                                          p.cutoffDate, o)
    /\ previewCalls' = [previewCalls EXCEPT ![o] = @ + 1]
    /\ UNCHANGED <<now, expenseBuild, nextExpId, users, analyses,
                   nextAnId, runs, quiet, limiter, lastReq, reqCount, global,
                   cutoffIn, cutoffOut, areqs, analysisBuild, adminLimiter, generalLimiter, job, scheduler,
                   putReq>>

\* the handler: getCleanupPreview(req.userId, retentionMonths) and the answer
GetPreview(o) ==
    /\ previewCalls[o] < MaxPreviewCalls
    /\ preview' = [preview EXCEPT ![o] =
            getCleanupPreview(expenseBuild, expenses, now, o, RetentionOf(users[o]))]
    /\ previewCalls' = [previewCalls EXCEPT ![o] = @ + 1]
    /\ UNCHANGED <<now, expenseBuild, expenses, nextExpId, users, analyses,
                   nextAnId, runs, quiet, limiter, lastReq, reqCount, global,
                   cutoffIn, cutoffOut, areqs, analysisBuild, adminLimiter, generalLimiter, job, scheduler,
                   putReq>>

-----------------------------------------------------------------------------
(* POST /api/expenses *)

\* createExpense: date is new Date(req.body.date)
CreateExpense(o, date, amount, category) ==
    /\ nextExpId <= MaxExpenses
    /\ expenses' = expenses \cup
            {[id |-> nextExpId, userId |-> o, date |-> date, amount |-> amount,
              category |-> category]}
    /\ nextExpId' = nextExpId + 1
    /\ runs' = WriteBy("client", runs)
    /\ quiet' = NoQuiet
    /\ previewCalls' = NoCalls
    /\ global' = [global EXCEPT !.disturbed = TRUE]
    /\ areqs' = MarkStale(areqs)
    /\ UNCHANGED <<now, expenseBuild, users, analyses, nextAnId, limiter,
                   lastReq, reqCount, preview, cutoffIn, cutoffOut,
                   analysisBuild, adminLimiter, generalLimiter, job, scheduler,
                   putReq>>

\* PUT /settings in the two steps its handler takes.  The frame of the
\* request between `await User.findById` and `await User.findByIdAndUpdate`:
\* the validated months and the lastCleanup read from the user
NoPut == [pc |-> "idle", o |-> NoUser, months |-> 0, lastCleanup |-> 0]

\* the middlewares, the validation and `user = await User.findById(...)`
PutSettingsFind(o, months) ==
    /\ putReq.pc = "idle"
    /\ generalLimiter[o] < MaxSettingsRequests
    /\ LET hits == generalLimiter[o] + 1
           answer(status, gate) ==
               [Answer(o, "", status, gate) EXCEPT !.months = months]
       IN  /\ generalLimiter' = [generalLimiter EXCEPT ![o] = hits]
           /\ IF hits > DataRetentionRateLimitMax
              THEN /\ lastReq' = answer(429, "settingsRateLimit")
                   /\ putReq' = putReq
              ELSE IF checkDataRetentionPermissions(users[o]) # 0
              THEN /\ lastReq' = answer(checkDataRetentionPermissions(users[o]),
                                        "permissions")
                   /\ putReq' = putReq
              ELSE IF validateRetentionChange(months) # 0
              THEN /\ lastReq' = answer(validateRetentionChange(months),
                                        "validateRetentionChange")
                   /\ putReq' = putReq
              ELSE IF retentionSettingsSchema(months).error
              THEN /\ lastReq' = answer(400, "schema")
                   /\ putReq' = putReq
              ELSE /\ lastReq' = answer(0, "settings")
                   /\ putReq' = [pc |-> "write", o |-> o,
                                 months |-> retentionSettingsSchema(months).value,
                                 lastCleanup |-> users[o].lastCleanup]
    /\ users' = users
    /\ UNCHANGED <<now, expenseBuild, expenses, nextExpId, analyses, nextAnId,
                   runs, quiet, limiter, reqCount, preview, previewCalls,
                   global, cutoffIn, cutoffOut, areqs, analysisBuild,
                   adminLimiter, job, scheduler>>

\* findByIdAndUpdate(req.userId, { dataRetention: updatedSettings }): the
\* whole dataRetention map is replaced by the one built from the user read
PutSettingsUpdate ==
    /\ putReq.pc = "write"
    /\ users' = [users EXCEPT ![putReq.o] =
                    [@ EXCEPT !.months = putReq.months,
                              !.lastCleanup = putReq.lastCleanup]]
    /\ lastReq' = [Answer(putReq.o, "", 200, "settings")
                      EXCEPT !.months = Months("number", putReq.months, TRUE)]
    /\ putReq' = NoPut
    /\ UNCHANGED <<now, expenseBuild, expenses, nextExpId, analyses, nextAnId,
                   runs, quiet, limiter, reqCount, preview, previewCalls,
                   global, cutoffIn, cutoffOut, areqs, analysisBuild,
                   adminLimiter, generalLimiter, job, scheduler>>

\* updateExpense: findById, ownership check, validation, findByIdAndUpdate
\* with the validated body, of which the date is kept here
UpdateExpense(o, id, date) ==
    /\ \E e \in expenses : e.id = id /\ e.userId = o
    /\ expenses' = {IF e.id = id THEN [e EXCEPT !.date = date] ELSE e :
                      e \in expenses}
    /\ runs' = WriteBy("client", runs)
    /\ quiet' = NoQuiet
    /\ previewCalls' = NoCalls
    /\ global' = [global EXCEPT !.disturbed = TRUE]
    /\ areqs' = MarkStale(areqs)
    /\ UNCHANGED <<now, expenseBuild, nextExpId, users, analyses, nextAnId,
                   limiter, lastReq, reqCount, preview, cutoffIn, cutoffOut,
                   analysisBuild, adminLimiter, generalLimiter, job, scheduler,
                   putReq>>

\* deleteExpense: findById, ownership check, findByIdAndDelete
DeleteExpense(o, id) ==
    /\ \E e \in expenses : e.id = id /\ e.userId = o
    /\ expenses' = {e \in expenses : e.id # id}
    /\ runs' = WriteBy("client", runs)
    /\ quiet' = NoQuiet
    /\ previewCalls' = NoCalls
    /\ global' = [global EXCEPT !.disturbed = TRUE]
    /\ areqs' = MarkStale(areqs)
    /\ UNCHANGED <<now, expenseBuild, nextExpId, users, analyses, nextAnId,
                   limiter, lastReq, reqCount, preview, cutoffIn, cutoffOut,
                   analysisBuild, adminLimiter, generalLimiter, job, scheduler,
                   putReq>>

-----------------------------------------------------------------------------
(* cleanupAllUsers, called by performDataCleanup (cron or manual trigger) *)

IdleGlobal == [pc |-> "idle", snapshot |-> <<>>, idx |-> 0,
               totalUsers |-> 0, processedUsers |-> 0, cleanedUsers |-> 0,
               totalExpensesDeleted |-> 0, totalAnalysisDeleted |-> 0,
               errors |-> <<>>, disturbed |-> FALSE, startExpenses |-> {},
               caller |-> "none", failed |-> {}, partial |-> {},
               by |-> NoUser, conf |-> ""]

\* User.getAllActive(): the documents with isActive == true
RECURSIVE getAllActive(_, _)
getAllActive(us, order) ==
    IF order = <<>> THEN <<>>
    ELSE (IF us[Head(order)].isActive
          THEN <<[id |-> Head(order), months |-> us[Head(order)].months]>>
          ELSE <<>>) \o getAllActive(us, Tail(order))

\* shouldCleanupUser(userId): reads the user again, then its old expenses
shouldCleanupUser(userId) ==
    LET cutoffT == DateInstant(calculateCutoffDate(now, RetentionOf(users[userId])))
    IN  getByDateRange(expenseBuild, expenses, Epoch, cutoffT, userId) # <<>>

AfterUser(g) ==
    [g EXCEPT !.idx = @ + 1,
              !.pc = IF g.idx + 1 > Len(g.snapshot) THEN "done" ELSE "loop"]

cleanupAllUsersStart ==
    /\ global.pc = "idle"
    /\ LET snap == getAllActive(users, UserOrder)
       IN  global' = [IdleGlobal EXCEPT !.snapshot = snap, !.idx = 1,
                          !.totalUsers = Len(snap),
                          !.startExpenses = expenses,
                          !.caller = "cron",
                          !.pc = IF snap = <<>> THEN "done" ELSE "loop"]
    /\ UNCHANGED <<now, expenseBuild, expenses, nextExpId, users, analyses,
                   nextAnId, runs, quiet, limiter, lastReq, reqCount, preview,
                   previewCalls, cutoffIn, cutoffOut, areqs, analysisBuild, adminLimiter, generalLimiter, job, scheduler,
                   putReq>>

\* one iteration of `for (const user of users)` up to the call of cleanupUser
cleanupAllUsersCheck ==
    /\ global.pc = "loop"
    /\ LET user == global.snapshot[global.idx]
           g == [global EXCEPT !.processedUsers = @ + 1]
       IN  IF shouldCleanupUser(user.id)
           THEN /\ runs' = CallCleanupUser("global", user.id, RetentionOf(user),
                                            "global", "")
                /\ global' = [g EXCEPT !.pc = "wait"]
           ELSE /\ global' = AfterUser(g)
                /\ runs' = runs
    /\ UNCHANGED <<now, expenseBuild, expenses, nextExpId, users, analyses,
                   nextAnId, quiet, limiter, lastReq, reqCount, preview,
                   previewCalls, cutoffIn, cutoffOut, areqs, analysisBuild, adminLimiter, generalLimiter, job, scheduler,
                   putReq>>

\* cleanupUser returned to the loop: the totals are added up
cleanupAllUsersCollect ==
    /\ global.pc = "wait"
    /\ runs["global"].pc = "done"
    /\ global' = AfterUser([global EXCEPT
                    !.cleanedUsers = @ + 1,
                    !.totalExpensesDeleted = @ + runs["global"].deleted,
                    !.totalAnalysisDeleted = @ + runs["global"].anDeleted])
    /\ runs' = [runs EXCEPT !["global"] = IdleRun]
    /\ UNCHANGED <<now, expenseBuild, expenses, nextExpId, users, analyses,
                   nextAnId, quiet, limiter, lastReq, reqCount, preview,
                   previewCalls, cutoffIn, cutoffOut, areqs, analysisBuild, adminLimiter, generalLimiter, job, scheduler,
                   putReq>>

\* performDataCleanup logs the results and returns them
performDataCleanupReturn ==
    /\ global.pc = "done"
    /\ global.caller = "cron"
    /\ global' = IdleGlobal
    /\ UNCHANGED <<now, expenseBuild, expenses, nextExpId, users, analyses,
                   nextAnId, runs, quiet, limiter, lastReq, reqCount, preview,
                   previewCalls, cutoffIn, cutoffOut, areqs, analysisBuild, adminLimiter, generalLimiter, job, scheduler,
                   putReq>>

-----------------------------------------------------------------------------
(* POST /api/data-retention/admin/cleanup *)

\* adminCleanupRateLimit: max global cleanups per 24 hours, one key for all
AdminCleanupRateLimitMax == 1

\* a gate that lets every role pass
checkAdminPermissionsAny(user) == 0

\* checkAdminPermissions: the status it answers with, 0 for next()
checkAdminPermissions(user) ==
    IF user.role # "admin" /\ user.role # "super_admin" THEN 403 ELSE 0

\* a route whose limiter comes after the role and confirmation checks, so
\* that it counts the requests that passed them only
PostAdminCleanupChecksFirst(o, conf) ==
    /\ adminLimiter < MaxRequests
    /\ LET answer(status, gate) ==
               [Answer(o, conf, status, gate) EXCEPT !.prev = lastReq.gate]
       IN  IF checkAdminPermissions(users[o]) # 0
           THEN /\ lastReq' = answer(checkAdminPermissions(users[o]),
                                     "adminPermissions")
                /\ UNCHANGED <<global, adminLimiter>>
           ELSE IF ~requireCleanupConfirmation(conf)
           THEN /\ lastReq' = answer(400, "confirmation")
                /\ UNCHANGED <<global, adminLimiter>>
           ELSE /\ adminLimiter' = adminLimiter + 1
                /\ IF adminLimiter + 1 > AdminCleanupRateLimitMax
                   THEN /\ lastReq' = answer(429, "adminRateLimit")
                        /\ global' = global
                   ELSE /\ lastReq' = answer(0, "adminHandler")
                        /\ global.pc = "idle"
                        /\ LET snap == getAllActive(users, UserOrder)
                           IN  global' = [IdleGlobal EXCEPT
                                   !.snapshot = snap, !.idx = 1,
                                   !.totalUsers = Len(snap),
                                   !.startExpenses = expenses,
                                   !.caller = "api", !.by = o, !.conf = conf,
                                   !.pc = IF snap = <<>> THEN "done" ELSE "loop"]
    /\ UNCHANGED <<now, expenseBuild, expenses, nextExpId, users, analyses,
                   nextAnId, runs, quiet, limiter, reqCount, preview,
                   previewCalls, cutoffIn, cutoffOut, areqs, analysisBuild,
                   generalLimiter, job, scheduler,
                   putReq>>

\* The middleware chain of the route and the start of its handler:
\* adminCleanupRateLimit, checkAdminPermissions, requireCleanupConfirmation,
\* then triggerDataCleanup -> performDataCleanup -> cleanupAllUsers.
PostAdminCleanup(o, conf) ==
    /\ adminLimiter < MaxRequests
    /\ LET hits == adminLimiter + 1
           answer(status, gate) ==
               [Answer(o, conf, status, gate) EXCEPT !.prev = lastReq.gate]
       IN  /\ adminLimiter' = hits
           /\ IF hits > AdminCleanupRateLimitMax
              THEN /\ lastReq' = answer(429, "adminRateLimit")
                   /\ global' = global
              ELSE IF checkAdminPermissions(users[o]) # 0
              THEN /\ lastReq' = answer(checkAdminPermissions(users[o]),
                                        "adminPermissions")
                   /\ global' = global
              ELSE IF ~requireCleanupConfirmation(conf)
              THEN /\ lastReq' = answer(400, "confirmation")
                   /\ global' = global
              ELSE /\ lastReq' = answer(0, "adminHandler")
                   /\ global.pc = "idle"
                   /\ LET snap == getAllActive(users, UserOrder)
                      IN  global' = [IdleGlobal EXCEPT
                              !.snapshot = snap, !.idx = 1,
                              !.totalUsers = Len(snap),
                              !.startExpenses = expenses,
                              !.caller = "api", !.by = o, !.conf = conf,
                              !.pc = IF snap = <<>> THEN "done" ELSE "loop"]
    /\ UNCHANGED <<now, expenseBuild, expenses, nextExpId, users, analyses,
                   nextAnId, runs, quiet, limiter, reqCount, preview,
                   previewCalls, cutoffIn, cutoffOut, areqs, analysisBuild,
                   generalLimiter, job, scheduler,
                   putReq>>

\* the handler after triggerDataCleanup returned: 200 with the results
PostAdminCleanupFinish ==
    /\ global.pc = "done"
    /\ global.caller = "api"
    /\ lastReq' = Answer(global.by, global.conf, 200, "adminHandler")
    /\ global' = IdleGlobal
    /\ UNCHANGED <<now, expenseBuild, expenses, nextExpId, users, analyses,
                   nextAnId, runs, quiet, limiter, reqCount, preview,
                   previewCalls, cutoffIn, cutoffOut, areqs, analysisBuild,
                   adminLimiter, generalLimiter, job, scheduler,
                   putReq>>

\* windowMs of adminCleanupRateLimit has passed: the counter restarts
adminCleanupRateLimitWindowEnds ==
    /\ adminLimiter > 0
    /\ adminLimiter' = 0
    /\ UNCHANGED <<now, expenseBuild, expenses, nextExpId, users, analyses,
                   nextAnId, runs, quiet, limiter, lastReq, reqCount, preview,
                   previewCalls, global, cutoffIn, cutoffOut, areqs,
                   analysisBuild, generalLimiter, job, scheduler,
                   putReq>>

-----------------------------------------------------------------------------
(* Store failures during the cleanup *)

\* cleanupUserExpenses whose Expense.getByDateRange throws: its catch
\* rethrows, and so does the catch of cleanupUser
cleanupUserExpensesQueryThrows(r) ==
    /\ runs[r].pc = "expenses"
    /\ runs' = [runs EXCEPT ![r] = [@ EXCEPT !.pc = "thrown"]]
    /\ UNCHANGED <<now, expenseBuild, expenses, nextExpId, users, analyses,
                   nextAnId, quiet, limiter, lastReq, reqCount, preview,
                   previewCalls, global, cutoffIn, cutoffOut, areqs,
                   analysisBuild, adminLimiter, generalLimiter, job, scheduler,
                   putReq>>

\* a failing delete that ends the loop and escapes cleanupUserExpenses
cleanupUserExpensesDeleteAborts(r) ==
    /\ runs[r].pc = "deleting"
    /\ Cardinality(runs[r].kept) < MaxDeleteFailures
    /\ runs' = [runs EXCEPT ![r] =
                [@ EXCEPT !.kept = @ \cup {runs[r].list[runs[r].i + 1].id},
                          !.clean = FALSE, !.pc = "thrown"]]
    /\ UNCHANGED <<now, expenseBuild, expenses, nextExpId, users, analyses,
                   nextAnId, quiet, limiter, lastReq, reqCount, preview,
                   previewCalls, global, cutoffIn, cutoffOut, areqs,
                   analysisBuild, adminLimiter, generalLimiter, job, scheduler,
                   putReq>>

\* one iteration of the batch loop whose Expense.delete throws: the error
\* is logged, deletedCount is not incremented and the loop goes on
cleanupUserExpensesDeleteThrows(r) ==
    /\ runs[r].pc = "deleting"
    /\ Cardinality(runs[r].kept) < MaxDeleteFailures
    /\ LET k == runs[r].i + 1
       IN  runs' = [runs EXCEPT ![r] =
                [@ EXCEPT !.i = k, !.kept = @ \cup {runs[r].list[k].id},
                          !.clean = FALSE,
                          !.pc = AfterDelete(k, Len(runs[r].list))]]
    /\ global' = [global EXCEPT !.partial =
                    @ \cup (IF runs[r].kind = "global" THEN {runs[r].userId}
                            ELSE {})]
    /\ UNCHANGED <<now, expenseBuild, expenses, nextExpId, users, analyses,
                   nextAnId, quiet, limiter, lastReq, reqCount, preview,
                   previewCalls, cutoffIn, cutoffOut, areqs,
                   analysisBuild, adminLimiter, generalLimiter, job, scheduler,
                   putReq>>

\* an analysis sub-step that lets the failure of the lookup escape
cleanupUserAnalysisRethrows(r) ==
    /\ runs[r].pc = "analysis"
    /\ runs' = [runs EXCEPT ![r] =
            [@ EXCEPT !.pc = "thrown", !.anFault = TRUE, !.clean = FALSE]]
    /\ UNCHANGED <<now, expenseBuild, expenses, nextExpId, users, analyses,
                   nextAnId, quiet, limiter, lastReq, reqCount, preview,
                   previewCalls, global, cutoffIn, cutoffOut, areqs,
                   analysisBuild, adminLimiter, generalLimiter, job, scheduler,
                   putReq>>

\* cleanupUserAnalysis whose lookup of old analyses throws: the inner catch
\* returns { success: true, deletedAnalysis: 0, skipped: true }
cleanupUserAnalysisThrows(r) ==
    /\ runs[r].pc = "analysis"
    /\ runs' = [runs EXCEPT ![r] =
            [@ EXCEPT !.pc = "return", !.anDeleted = 0, !.skipped = TRUE,
                      !.anFault = TRUE, !.clean = FALSE]]
    /\ UNCHANGED <<now, expenseBuild, expenses, nextExpId, users, analyses,
                   nextAnId, quiet, limiter, lastReq, reqCount, preview,
                   previewCalls, global, cutoffIn, cutoffOut, areqs,
                   analysisBuild, adminLimiter, generalLimiter, job, scheduler,
                   putReq>>

\* one iteration of the loop whose shouldCleanupUser hits a store failure:
\* its catch logs the error and returns false, the owner is passed over
shouldCleanupUserThrows ==
    /\ global.pc = "loop"
    /\ LET user == global.snapshot[global.idx]
       IN  global' = AfterUser([global EXCEPT !.processedUsers = @ + 1,
                                              !.failed = @ \cup {user.id}])
    /\ UNCHANGED <<now, expenseBuild, expenses, nextExpId, users, analyses,
                   nextAnId, runs, quiet, limiter, lastReq, reqCount, preview,
                   previewCalls, cutoffIn, cutoffOut, areqs,
                   analysisBuild, adminLimiter, generalLimiter, job, scheduler,
                   putReq>>

\* a catch that gives up the loop at the first owner that fails
cleanupAllUsersCatchAborts ==
    /\ global.pc = "wait"
    /\ runs["global"].pc = "thrown"
    /\ global' = [global EXCEPT
                    !.errors = Append(@, [userId |-> runs["global"].userId,
                                          error |-> "cleanupUser"]),
                    !.failed = @ \cup {runs["global"].userId},
                    !.pc = "done"]
    /\ runs' = [runs EXCEPT !["global"] = IdleRun]
    /\ UNCHANGED <<now, expenseBuild, expenses, nextExpId, users, analyses,
                   nextAnId, quiet, limiter, lastReq, reqCount, preview,
                   previewCalls, cutoffIn, cutoffOut, areqs,
                   analysisBuild, adminLimiter, generalLimiter, job, scheduler,
                   putReq>>

\* cleanupUser threw: the catch of the loop body records
\* { userId, error: error.message } and the loop goes on
cleanupAllUsersCatch ==
    /\ global.pc = "wait"
    /\ runs["global"].pc = "thrown"
    /\ global' = AfterUser([global EXCEPT
                    !.errors = Append(@, [userId |-> runs["global"].userId,
                                          error |-> "cleanupUser"]),
                    !.failed = @ \cup {runs["global"].userId}])
    /\ runs' = [runs EXCEPT !["global"] = IdleRun]
    /\ UNCHANGED <<now, expenseBuild, expenses, nextExpId, users, analyses,
                   nextAnId, quiet, limiter, lastReq, reqCount, preview,
                   previewCalls, cutoffIn, cutoffOut, areqs,
                   analysisBuild, adminLimiter, generalLimiter, job, scheduler,
                   putReq>>

\* cleanupAllUsers whose User.getAllActive() throws: the outer catch rethrows
getAllActiveThrows ==
    /\ global.pc = "idle"
    /\ global' = [IdleGlobal EXCEPT !.pc = "thrown", !.caller = "cron"]
    /\ UNCHANGED <<now, expenseBuild, expenses, nextExpId, users, analyses,
                   nextAnId, runs, quiet, limiter, lastReq, reqCount, preview,
                   previewCalls, cutoffIn, cutoffOut, areqs,
                   analysisBuild, adminLimiter, generalLimiter, job, scheduler,
                   putReq>>

\* performDataCleanup: its catch logs the error and rethrows it
performDataCleanupThrows ==
    /\ global.pc = "thrown"
    /\ global.caller = "cron"
    /\ global' = IdleGlobal
    /\ UNCHANGED <<now, expenseBuild, expenses, nextExpId, users, analyses,
                   nextAnId, runs, quiet, limiter, lastReq, reqCount, preview,
                   previewCalls, cutoffIn, cutoffOut, areqs,
                   analysisBuild, adminLimiter, generalLimiter, job, scheduler,
                   putReq>>

-----------------------------------------------------------------------------
(* The notification jobs of SchedulerService *)

\* defined: the job returned its results object (FALSE: it returned
\* undefined); left: users still to be handled
\* n: users.length, the users numbered 1..n in the order of the list;
\* i: the loop index; inflight: the sends of the batch that have not settled;
\* settled: the users whose send has settled
IdleJob == [name |-> "none", pc |-> "idle", n |-> 0, i |-> 0,
            inflight |-> {}, settled |-> {}, defined |-> FALSE,
            sent |-> 0, skipped |-> 0, failed |-> 0, errors |-> <<>>]

\* const batchSize = 10 of sendDailySummaries
summaryBatchSize == 10

\* users.slice(i, i + batchSize)
Slice(n, i) ==
    {u \in 1..n : u > i /\ u <= i + summaryBatchSize}

\* sendDailySummaries up to its loop: n users have the summary enabled
sendDailySummaries(n) ==
    /\ job.pc = "idle"
    /\ job' = IF n = 0
              THEN [IdleJob EXCEPT !.name = "daily", !.pc = "returned"]
              ELSE [IdleJob EXCEPT !.name = "daily", !.pc = "batch",
                                   !.n = n, !.defined = TRUE]
    /\ UNCHANGED <<now, expenseBuild, expenses, nextExpId, users, analyses,
                   nextAnId, runs, quiet, limiter, lastReq, reqCount, preview,
                   previewCalls, global, cutoffIn, cutoffOut, areqs,
                   analysisBuild, adminLimiter, generalLimiter, scheduler,
                   putReq>>

\* a loop that maps the send over all the users that are left
sendDailySummariesBatchAll ==
    /\ job.pc = "batch"
    /\ job' = [job EXCEPT !.pc = "sending",
                          !.inflight = {u \in 1..job.n : u > job.i}]
    /\ UNCHANGED <<now, expenseBuild, expenses, nextExpId, users, analyses,
                   nextAnId, runs, quiet, limiter, lastReq, reqCount, preview,
                   previewCalls, global, cutoffIn, cutoffOut, areqs,
                   analysisBuild, adminLimiter, generalLimiter, scheduler,
                   putReq>>

\* batch.map(async (user) => ...): the sends of one batch start, each up to
\* its `await notificationService.sendDailySummary(...)`
sendDailySummariesBatch ==
    /\ job.pc = "batch"
    /\ job' = [job EXCEPT !.pc = "sending", !.inflight = Slice(job.n, job.i)]
    /\ UNCHANGED <<now, expenseBuild, expenses, nextExpId, users, analyses,
                   nextAnId, runs, quiet, limiter, lastReq, reqCount, preview,
                   previewCalls, global, cutoffIn, cutoffOut, areqs,
                   analysisBuild, adminLimiter, generalLimiter, scheduler,
                   putReq>>

\* await Promise.allSettled(...) is over: the delay of one second and the
\* next turn of the loop, or the return of results after the last batch
AfterBatch(j) ==
    IF j.i + summaryBatchSize < j.n THEN "delay" ELSE "returned"

sendDailySummariesDelay ==
    /\ job.pc = "delay"
    /\ job' = [job EXCEPT !.pc = "batch", !.i = @ + summaryBatchSize]
    /\ UNCHANGED <<now, expenseBuild, expenses, nextExpId, users, analyses,
                   nextAnId, runs, quiet, limiter, lastReq, reqCount, preview,
                   previewCalls, global, cutoffIn, cutoffOut, areqs,
                   analysisBuild, adminLimiter, generalLimiter, scheduler,
                   putReq>>

\* sendDailySummaries whose User.getUsersWithDailySummaryEnabled() throws:
\* the catch logs and rethrows
sendDailySummariesThrows ==
    /\ job.pc = "idle"
    /\ job' = [IdleJob EXCEPT !.name = "daily", !.pc = "thrown"]
    /\ UNCHANGED <<now, expenseBuild, expenses, nextExpId, users, analyses,
                   nextAnId, runs, quiet, limiter, lastReq, reqCount, preview,
                   previewCalls, global, cutoffIn, cutoffOut, areqs,
                   analysisBuild, adminLimiter, generalLimiter, scheduler,
                   putReq>>

\* a send whose failure is not caught by the callback: the promise of the
\* user is rejected, which Promise.allSettled absorbs, and nothing is counted
sendDailySummaryUncaught(u, outcome) ==
    /\ job.pc = "sending"
    /\ u \in job.inflight
    /\ outcome = "failed" => job.failed < MaxSendFailures
    /\ job' = [job EXCEPT
            !.inflight = @ \ {u},
            !.settled = @ \cup {u},
            !.sent = IF outcome = "sent" THEN @ + 1 ELSE @,
            !.skipped = IF outcome = "skipped" THEN @ + 1 ELSE @,
            !.pc = IF job.inflight = {u} THEN AfterBatch(job) ELSE "sending"]
    /\ UNCHANGED <<now, expenseBuild, expenses, nextExpId, users, analyses,
                   nextAnId, runs, quiet, limiter, lastReq, reqCount, preview,
                   previewCalls, global, cutoffIn, cutoffOut, areqs,
                   analysisBuild, adminLimiter, generalLimiter, scheduler,
                   putReq>>

\* notificationService.sendDailySummary for one user of the batch settles:
\* sent, skipped (no expenses today) or thrown (counted and pushed to errors)
sendDailySummary(u, outcome) ==
    /\ job.pc = "sending"
    /\ u \in job.inflight
    /\ outcome = "failed" => job.failed < MaxSendFailures
    /\ job' = [job EXCEPT
            !.inflight = @ \ {u},
            !.settled = @ \cup {u},
            !.sent = IF outcome = "sent" THEN @ + 1 ELSE @,
            !.skipped = IF outcome = "skipped" THEN @ + 1 ELSE @,
            !.failed = IF outcome = "failed" THEN @ + 1 ELSE @,
            !.errors = IF outcome = "failed" THEN Append(@, u) ELSE @,
            !.pc = IF job.inflight = {u} THEN AfterBatch(job) ELSE "sending"]
    /\ UNCHANGED <<now, expenseBuild, expenses, nextExpId, users, analyses,
                   nextAnId, runs, quiet, limiter, lastReq, reqCount, preview,
                   previewCalls, global, cutoffIn, cutoffOut, areqs,
                   analysisBuild, adminLimiter, generalLimiter, scheduler,
                   putReq>>

\* sendWeeklyReports: n users have the report enabled; the loop only logs
sendWeeklyReports(n) ==
    /\ job.pc = "idle"
    /\ job' = IF n = 0
              THEN [IdleJob EXCEPT !.name = "weekly", !.pc = "returned"]
              ELSE [IdleJob EXCEPT !.name = "weekly", !.pc = "returned",
                                   !.defined = TRUE, !.sent = n]
    /\ UNCHANGED <<now, expenseBuild, expenses, nextExpId, users, analyses,
                   nextAnId, runs, quiet, limiter, lastReq, reqCount, preview,
                   previewCalls, global, cutoffIn, cutoffOut, areqs,
                   analysisBuild, adminLimiter, generalLimiter, scheduler,
                   putReq>>

\* sendWeeklyReports whose User.getUsersWithWeeklyReportEnabled() throws
sendWeeklyReportsThrows ==
    /\ job.pc = "idle"
    /\ job' = [IdleJob EXCEPT !.name = "weekly", !.pc = "thrown"]
    /\ UNCHANGED <<now, expenseBuild, expenses, nextExpId, users, analyses,
                   nextAnId, runs, quiet, limiter, lastReq, reqCount, preview,
                   previewCalls, global, cutoffIn, cutoffOut, areqs,
                   analysisBuild, adminLimiter, generalLimiter, scheduler,
                   putReq>>

\* the caller of the job (cron callback or manual trigger) has its outcome
jobEnds ==
    /\ job.pc \in {"returned", "thrown"}
    /\ job' = IdleJob
    /\ UNCHANGED <<now, expenseBuild, expenses, nextExpId, users, analyses,
                   nextAnId, runs, quiet, limiter, lastReq, reqCount, preview,
                   previewCalls, global, cutoffIn, cutoffOut, areqs,
                   analysisBuild, adminLimiter, generalLimiter, scheduler,
                   putReq>>

-----------------------------------------------------------------------------
(* SchedulerService: the registry of cron tasks *)

JobNames == {"dailySummary", "weeklyReport", "dataCleanup"}

\* constructor: this.jobs = new Map(); this.isInitialized = false.
\* tasks: every task cron.schedule has made, in the order of creation, with
\* its name and whether it is started; jobs maps a name to the position of
\* its task (0: no entry); calls counts the calls made
NewScheduler == [isInitialized |-> FALSE,
                 jobs |-> [name \in JobNames |-> 0],
                 tasks |-> <<>>,
                 calls |-> 0]

\* cron.schedule(..., { scheduled: false }), this.jobs.set(name, job),
\* job.start(), for the three jobs in turn
setupJobs(sch) ==
    LET k == Len(sch.tasks)
    IN  [sch EXCEPT
           !.tasks = @ \o <<[name |-> "dailySummary", started |-> TRUE],
                             [name |-> "weeklyReport", started |-> TRUE],
                             [name |-> "dataCleanup", started |-> TRUE]>>,
           !.jobs = [name \in JobNames |->
                        IF name = "dailySummary" THEN k + 1
                        ELSE IF name = "weeklyReport" THEN k + 2 ELSE k + 3]]

\* job.start() / job.stop() on every task in this.jobs
SetRegistered(sch, started) ==
    [sch EXCEPT !.tasks =
        [t \in 1..Len(sch.tasks) |->
            IF \E name \in JobNames : sch.jobs[name] = t
            THEN [sch.tasks[t] EXCEPT !.started = started]
            ELSE sch.tasks[t]]]

\* initialize()
initialize ==
    /\ scheduler.calls < MaxSchedulerCalls
    /\ scheduler' =
         [(IF scheduler.isInitialized THEN scheduler
           ELSE [setupJobs(scheduler) EXCEPT !.isInitialized = TRUE])
          EXCEPT !.calls = @ + 1]
    /\ UNCHANGED <<now, expenseBuild, expenses, nextExpId, users, analyses,
                   nextAnId, runs, quiet, limiter, lastReq, reqCount, preview,
                   previewCalls, global, cutoffIn, cutoffOut, areqs,
                   analysisBuild, adminLimiter, generalLimiter, job,
                   putReq>>

\* stopAllJobs()
stopAllJobs ==
    /\ scheduler.calls < MaxSchedulerCalls
    /\ scheduler' = [SetRegistered(scheduler, FALSE)
                        EXCEPT !.isInitialized = FALSE, !.calls = @ + 1]
    /\ UNCHANGED <<now, expenseBuild, expenses, nextExpId, users, analyses,
                   nextAnId, runs, quiet, limiter, lastReq, reqCount, preview,
                   previewCalls, global, cutoffIn, cutoffOut, areqs,
                   analysisBuild, adminLimiter, generalLimiter, job,
                   putReq>>

\* startAllJobs()
startAllJobs ==
    /\ scheduler.calls < MaxSchedulerCalls
    /\ scheduler' = [SetRegistered(scheduler, TRUE) EXCEPT !.calls = @ + 1]
    /\ UNCHANGED <<now, expenseBuild, expenses, nextExpId, users, analyses,
                   nextAnId, runs, quiet, limiter, lastReq, reqCount, preview,
                   previewCalls, global, cutoffIn, cutoffOut, areqs,
                   analysisBuild, adminLimiter, generalLimiter, job,
                   putReq>>

\* restartJob(jobName): job.stop(); job.start() when the name has an entry
restartJob(jobName) ==
    /\ scheduler.calls < MaxSchedulerCalls
    /\ LET t == scheduler.jobs[jobName]
       IN  scheduler' =
             [scheduler EXCEPT
                !.tasks = IF t = 0 THEN @
                          ELSE [@ EXCEPT ![t] = [@ EXCEPT !.started = TRUE]],
                !.calls = @ + 1]
    /\ UNCHANGED <<now, expenseBuild, expenses, nextExpId, users, analyses,
                   nextAnId, runs, quiet, limiter, lastReq, reqCount, preview,
                   previewCalls, global, cutoffIn, cutoffOut, areqs,
                   analysisBuild, adminLimiter, generalLimiter, job,
                   putReq>>

-----------------------------------------------------------------------------
(* Weekly analysis: createWeeklyAnalysis and the WeeklyAnalysis model *)

WeekEnd(weekStart) == EndOfDay(weekStart + 12)   \* add(6,'days').endOf('day')

\* insertion into a list kept in descending order of .key, after its equals
\* (Array.prototype.sort is stable)
RECURSIVE InsertDesc(_, _)
InsertDesc(x, q) ==
    IF q = <<>> THEN <<x>>
    ELSE IF Head(q).key >= x.key THEN <<Head(q)>> \o InsertDesc(x, Tail(q))
    ELSE <<x>> \o q

RECURSIVE StableSortDesc(_)
StableSortDesc(q) ==
    IF q = <<>> THEN <<>>
    ELSE InsertDesc(q[Len(q)], StableSortDesc(SubSeq(q, 1, Len(q) - 1)))

\* JavaScript numbers are binary floating point: a sum is rounded to the
\* nearest number with MantissaBits significant bits, ties to the even one
\* (53 bits in the code; amounts are naturals here, and the width is small
\* enough for sums of a few amounts to round)
MantissaBits == 6

RECURSIVE Pow2(_)
Pow2(n) == IF n = 0 THEN 1 ELSE 2 * Pow2(n - 1)

RECURSIVE UnitOf(_, _)
UnitOf(x, u) == IF x < u * Pow2(MantissaBits) THEN u ELSE UnitOf(x, 2 * u)

RoundToNumber(x) ==
    LET u == UnitOf(x, 1)
        m == x \div u
        r == x % u
    IN  IF 2 * r < u THEN m * u
        ELSE IF 2 * r > u THEN (m + 1) * u
        ELSE IF m % 2 = 0 THEN m * u ELSE (m + 1) * u

\* sum + expense.amount
NumberAdd(x, y) == RoundToNumber(x + y)

\* expenses.reduce((sum, expense) => sum + expense.amount, 0), and the
\* `total += expense.amount` of a category or a day, in the order of the list
RECURSIVE ReduceAmounts(_, _)
ReduceAmounts(q, sum) ==
    IF q = <<>> THEN sum
    ELSE ReduceAmounts(Tail(q), NumberAdd(sum, Head(q).amount))

\* expense.category || 'Other'
CategoryOf(e) == IF e.category = "" THEN "Other" ELSE e.category

\* the keys of categoryMap in insertion order
RECURSIVE EncounterOrder(_, _)
EncounterOrder(q, seen) ==
    IF q = <<>> THEN <<>>
    ELSE IF CategoryOf(Head(q)) \in seen THEN EncounterOrder(Tail(q), seen)
    ELSE <<CategoryOf(Head(q))>>
            \o EncounterOrder(Tail(q), seen \cup {CategoryOf(Head(q))})

Take(q, n) == SubSeq(q, 1, IF Len(q) < n THEN Len(q) ELSE n)

ZeroAnalysis == [totalAmount |-> 0, totalExpenses |-> 0,
                 categoryBreakdown |-> <<>>, dailyTotals |-> <<>>,
                 topExpenses |-> <<>>]

\* the computed fields of createWeeklyAnalysis for the expenses found
\* (percentages and averages are quotients of the fields kept here)
Aggregate(S, weekStart) ==
    IF S = {} THEN ZeroAnalysis
    ELSE
    LET list == SortByDateDesc(S)
        cats == EncounterOrder(list, {})
        entry(c) == LET InC(e) == CategoryOf(e) = c
                        Lc == SelectSeq(list, InC)
                    IN  [key |-> ReduceAmounts(Lc, 0), category |-> c,
                         total |-> ReduceAmounts(Lc, 0), count |-> Len(Lc)]
        day(k) == {e \in S : e.date \div 2 = (weekStart \div 2) + k}
    IN  [totalAmount |-> ReduceAmounts(list, 0),
         totalExpenses |-> Cardinality(S),
         categoryBreakdown |->
            StableSortDesc([k \in 1..Len(cats) |-> entry(cats[k])]),
         dailyTotals |->
            [k \in 1..7 |-> [date |-> weekStart + 2 * (k - 1),
                             total |-> ReduceAmounts(
                                 SortByDateDesc(day(k - 1)), 0),
                             expenseCount |-> Cardinality(day(k - 1))]],
         topExpenses |->
            Take(StableSortDesc([k \in 1..Len(list) |->
                    [key |-> list[k].amount, amount |-> list[k].amount,
                     category |-> list[k].category, date |-> list[k].date]]), 5)]

\* WeeklyAnalysisModel.findByWeek(weekStartDate, userId): the documents that
\* match; it returns the first of them, in the order the store lists them
findByWeek(docs, weekStartDate, userId) ==
    LET startDate == weekStartDate - (weekStartDate % 2)
    IN  {a \in docs : /\ (userId = NoUser \/ a.userId = userId)
                      /\ a.weekStartDate >= startDate
                      /\ a.weekStartDate <= EndOfDay(startDate)}

-----------------------------------------------------------------------------
(* GET /api/analysis/weekly and POST /api/analysis/weekly/generate *)

AReqIds == 1..MaxAnalysisReqs

\* the aiSuggestions field of an analysis document: absent, or the payload
\* number n made from a prompt that quotes the totalAmount it was asked for
NoSuggestions == [n |-> 0, prompt |-> 0]

NoResp == [id |-> 0, src |-> {}, computed |-> ZeroAnalysis]

IdleAReq == [pc |-> "idle", kind |-> "none", userId |-> NoUser, arg |-> NoUser,
             week |-> 0, existing |-> 0, data |-> ZeroAnalysis, src |-> {},
             status |-> 0, resp |-> NoResp, stale |-> FALSE]

\* the slot a new request gets: the first one that is free
FreeAReq(q) ==
    areqs[q].pc = "idle" /\ \A q2 \in AReqIds : q2 < q => areqs[q2].pc # "idle"

OkStatus(kind) == IF kind = "generate" THEN 201 ELSE 200

Respond(frame, status, resp) ==
    [frame EXCEPT !.pc = "done", !.status = status, !.resp = resp]

\* getWeeklyAnalysis up to `await WeeklyAnalysis.findByWeek(weekStart)`;
\* the later createWeeklyAnalysis gets req.userId in one controller and no
\* user in the other
getWeeklyAnalysis(q, u, w) ==
    /\ FreeAReq(q)
    /\ areqs' = [areqs EXCEPT ![q] =
            [IdleAReq EXCEPT !.pc = "find", !.kind = "get", !.userId = u,
                             !.week = w,
                             !.arg = IF analysisBuild = "part001" THEN u
                                     ELSE NoUser]]
    /\ UNCHANGED <<now, expenseBuild, expenses, nextExpId, users, analyses,
                   nextAnId, runs, quiet, limiter, lastReq, reqCount, preview,
                   previewCalls, global, cutoffIn, cutoffOut, analysisBuild, adminLimiter, generalLimiter, job, scheduler,
                   putReq>>

\* generateWeeklyAnalysis: createWeeklyAnalysis(weekStart, weekEnd)
generateWeeklyAnalysis(q, u, w) ==
    /\ FreeAReq(q)
    /\ areqs' = [areqs EXCEPT ![q] =
            [IdleAReq EXCEPT !.pc = "compute", !.kind = "generate",
                             !.userId = u, !.week = w, !.arg = NoUser]]
    /\ UNCHANGED <<now, expenseBuild, expenses, nextExpId, users, analyses,
                   nextAnId, runs, quiet, limiter, lastReq, reqCount, preview,
                   previewCalls, global, cutoffIn, cutoffOut, analysisBuild, adminLimiter, generalLimiter, job, scheduler,
                   putReq>>

\* findByWeek(weekStart) answered: the cached analysis, or none
getWeeklyAnalysisFind(q) ==
    /\ areqs[q].pc = "find"
    /\ LET m == findByWeek(analyses, areqs[q].week, NoUser)
       IN  IF m = {}
           THEN areqs' = [areqs EXCEPT ![q] = [@ EXCEPT !.pc = "compute"]]
           ELSE \E a \in m :
                  areqs' = [areqs EXCEPT ![q] = Respond(@, 200,
                        [id |-> a.id, src |-> a.src, computed |-> a.computed])]
    /\ UNCHANGED <<now, expenseBuild, expenses, nextExpId, users, analyses,
                   nextAnId, runs, quiet, limiter, lastReq, reqCount, preview,
                   previewCalls, global, cutoffIn, cutoffOut, analysisBuild, adminLimiter, generalLimiter, job, scheduler,
                   putReq>>

\* createWeeklyAnalysis up to the call of findOneAndUpdate
createWeeklyAnalysisCompute(q) ==
    /\ areqs[q].pc = "compute"
    /\ LET f == areqs[q]
           S == find(expenseBuild, expenses, f.week, WeekEnd(f.week), f.arg)
       IN  areqs' = [areqs EXCEPT ![q] =
              IF analysisBuild = "part001" /\ f.arg = NoUser
              THEN Respond(f, 500, NoResp)     \* 'User ID is required ...'
              ELSE IF S = {}
              THEN Respond(f, OkStatus(f.kind), NoResp)
              ELSE [f EXCEPT !.pc = "upsertFind",
                             !.data = Aggregate(S, f.week),
                             !.src = {e.userId : e \in S}]]
    /\ UNCHANGED <<now, expenseBuild, expenses, nextExpId, users, analyses,
                   nextAnId, runs, quiet, limiter, lastReq, reqCount, preview,
                   previewCalls, global, cutoffIn, cutoffOut, analysisBuild, adminLimiter, generalLimiter, job, scheduler,
                   putReq>>

\* findOneAndUpdate({ weekStartDate }, ...): await this.findByWeek(...)
findOneAndUpdateFind(q) ==
    /\ areqs[q].pc = "upsertFind"
    /\ LET m == findByWeek(analyses, areqs[q].week, NoUser)
       IN  IF m = {}
           THEN areqs' = [areqs EXCEPT ![q] =
                            [@ EXCEPT !.pc = "upsertWrite", !.existing = 0]]
           ELSE \E a \in m :
                  areqs' = [areqs EXCEPT ![q] =
                            [@ EXCEPT !.pc = "upsertWrite", !.existing = a.id]]
    /\ UNCHANGED <<now, expenseBuild, expenses, nextExpId, users, analyses,
                   nextAnId, runs, quiet, limiter, lastReq, reqCount, preview,
                   previewCalls, global, cutoffIn, cutoffOut, analysisBuild, adminLimiter, generalLimiter, job, scheduler,
                   putReq>>

\* an update that replaces the document found instead of merging into it
findOneAndUpdateReplaces(q) ==
    /\ areqs[q].pc = "upsertWrite"
    /\ LET f == areqs[q]
           hit == {a \in analyses : a.id = f.existing}
       IN  IF f.existing # 0
           THEN IF hit = {}
                THEN /\ areqs' = [areqs EXCEPT ![q] = Respond(f, 500, NoResp)]
                     /\ UNCHANGED <<analyses, nextAnId>>
                ELSE /\ analyses' =
                          {IF a.id = f.existing
                           THEN [a EXCEPT !.weekStartDate = f.week,
                                          !.computed = f.data, !.src = f.src,
                                          !.ai = NoSuggestions]
                           ELSE a : a \in analyses}
                     /\ nextAnId' = nextAnId
                     /\ areqs' = [areqs EXCEPT ![q] = Respond(f, OkStatus(f.kind),
                          [id |-> f.existing, src |-> f.src, computed |-> f.data])]
           ELSE /\ nextAnId <= MaxAnalyses
                /\ analyses' = analyses \cup
                      {[id |-> nextAnId, userId |-> NoUser,
                        weekStartDate |-> f.week, computed |-> f.data,
                        src |-> f.src, createdFor |-> f.userId, ai |-> NoSuggestions]}
                /\ nextAnId' = nextAnId + 1
                /\ areqs' = [areqs EXCEPT ![q] = Respond(f, OkStatus(f.kind),
                          [id |-> nextAnId, src |-> f.src, computed |-> f.data])]
    /\ UNCHANGED <<now, expenseBuild, expenses, nextExpId, users, runs, quiet,
                   limiter, lastReq, reqCount, preview, previewCalls, global,
                   cutoffIn, cutoffOut, analysisBuild, adminLimiter, generalLimiter, job, scheduler,
                   putReq>>

\* findOneAndUpdate: update of the document found, or create (upsert)
findOneAndUpdateWrite(q) ==
    /\ areqs[q].pc = "upsertWrite"
    /\ LET f == areqs[q]
           hit == {a \in analyses : a.id = f.existing}
       IN  IF f.existing # 0
           THEN IF hit = {}
                THEN /\ areqs' = [areqs EXCEPT ![q] = Respond(f, 500, NoResp)]
                     /\ UNCHANGED <<analyses, nextAnId>>
                ELSE /\ analyses' =
                          {IF a.id = f.existing
                           THEN [a EXCEPT !.weekStartDate = f.week,
                                          !.computed = f.data, !.src = f.src]
                           ELSE a : a \in analyses}
                     /\ nextAnId' = nextAnId
                     /\ areqs' = [areqs EXCEPT ![q] = Respond(f, OkStatus(f.kind),
                          [id |-> f.existing, src |-> f.src, computed |-> f.data])]
           ELSE /\ nextAnId <= MaxAnalyses
                /\ analyses' = analyses \cup
                      {[id |-> nextAnId, userId |-> NoUser,
                        weekStartDate |-> f.week, computed |-> f.data,
                        src |-> f.src, createdFor |-> f.userId, ai |-> NoSuggestions]}
                /\ nextAnId' = nextAnId + 1
                /\ areqs' = [areqs EXCEPT ![q] = Respond(f, OkStatus(f.kind),
                          [id |-> nextAnId, src |-> f.src, computed |-> f.data])]
    /\ UNCHANGED <<now, expenseBuild, expenses, nextExpId, users, runs, quiet,
                   limiter, lastReq, reqCount, preview, previewCalls, global,
                   cutoffIn, cutoffOut, analysisBuild, adminLimiter, generalLimiter, job, scheduler,
                   putReq>>

\* create with `userId: filter.userId || updateData.userId`, undefined here:
\* the store client refuses an undefined field value unless configured to
\* ignore it, and the upsert then throws
findOneAndUpdateCreateThrows(q) ==
    /\ areqs[q].pc = "upsertWrite"
    /\ areqs[q].existing = 0
    /\ analysisBuild = "part001"
    /\ areqs' = [areqs EXCEPT ![q] = Respond(@, 500, NoResp)]
    /\ UNCHANGED <<now, expenseBuild, expenses, nextExpId, users, analyses,
                   nextAnId, runs, quiet, limiter, lastReq, reqCount, preview,
                   previewCalls, global, cutoffIn, cutoffOut, analysisBuild, adminLimiter, generalLimiter, job, scheduler,
                   putReq>>

\* getAISuggestions, when the model answered and analysisData.weekStartDate
\* is set: findOneAndUpdate({ weekStartDate }, { aiSuggestions }) without
\* upsert; the prompt is made from the analysis the client sends back
getAISuggestions(w, n) ==
    /\ LET m == findByWeek(analyses, w, NoUser)
       IN  /\ m # {}
           /\ \E a \in m :
                analyses' = {IF b.id = a.id
                             THEN [b EXCEPT !.ai = [n |-> n,
                                      prompt |-> a.computed.totalAmount]]
                             ELSE b : b \in analyses}
    /\ UNCHANGED <<now, expenseBuild, expenses, nextExpId, users,
                   nextAnId, runs, quiet, limiter, lastReq, reqCount, preview,
                   previewCalls, global, cutoffIn, cutoffOut, areqs,
                   analysisBuild, adminLimiter, generalLimiter, job, scheduler,
                   putReq>>

\* WeeklyAnalysisModel.updateAISuggestions(weekStartDate, suggestions), which
\* throws when no analysis of the week is stored
updateAISuggestions(w, n) ==
    /\ LET m == findByWeek(analyses, w, NoUser)
       IN  /\ m # {}
           /\ \E a \in m :
                analyses' = {IF b.id = a.id
                             THEN [b EXCEPT !.ai = [n |-> n, prompt |-> 0]]
                             ELSE b : b \in analyses}
    /\ UNCHANGED <<now, expenseBuild, expenses, nextExpId, users,
                   nextAnId, runs, quiet, limiter, lastReq, reqCount, preview,
                   previewCalls, global, cutoffIn, cutoffOut, areqs,
                   analysisBuild, adminLimiter, generalLimiter, job, scheduler,
                   putReq>>

\* the response is sent and the request is over
analysisResponseSent(q) ==
    /\ areqs[q].pc = "done"
    /\ areqs' = [areqs EXCEPT ![q] = IdleAReq]
    /\ UNCHANGED <<now, expenseBuild, expenses, nextExpId, users, analyses,
                   nextAnId, runs, quiet, limiter, lastReq, reqCount, preview,
                   previewCalls, global, cutoffIn, cutoffOut, analysisBuild, adminLimiter, generalLimiter, job, scheduler,
                   putReq>>

-----------------------------------------------------------------------------
(* Specification of the cutoff computation *)

Today == [y |-> 2025, m |-> 2, d |-> 15]     \* 2025-03-15

\* oldEnough: the account was created at least 7 days ago
UserDoc(months, isActive, status, oldEnough) ==
    [months |-> months, isActive |-> isActive, status |-> status,
     oldEnough |-> oldEnough, createdAt |-> "Timestamp", role |-> "user",
     lastCleanup |-> 0]

PlainUsers == [o \in Owners |-> UserDoc(0, TRUE, "active", TRUE)]

\* everything but the clock, the builds and the stores' contents
InitCommon ==
    /\ nextAnId = 1
    /\ runs = [r \in RunIds |-> IdleRun]
    /\ quiet = NoQuiet
    /\ limiter = [o \in Owners |-> 0]
    /\ lastReq = NoReq
    /\ reqCount = [o \in Owners |-> 0]
    /\ preview = [o \in Owners |-> NoPreview]
    /\ previewCalls = NoCalls
    /\ global = IdleGlobal
    /\ cutoffIn = [now |-> Today, n |-> 0]
    /\ cutoffOut = [y |-> 0, m |-> 0, d |-> 0]
    /\ areqs = [q \in AReqIds |-> IdleAReq]
    /\ adminLimiter = 0
    /\ generalLimiter = [o \in Owners |-> 0]
    /\ job = IdleJob
    /\ scheduler = NewScheduler
    /\ putReq = NoPut

InitCutoff ==
    /\ now \in [y : {2024, 2025}, m : 0..11, d : {1, 15, 31}]
    /\ expenseBuild = "named"
    /\ analysisBuild = "part001"
    /\ expenses = {}
    /\ nextExpId = 1
    /\ analyses = {}
    /\ users = PlainUsers
    /\ InitCommon

\* a call of calculateCutoffDate(retentionMonths) at the current date
ComputeCutoff(retentionMonths) ==
    /\ cutoffIn' = [now |-> now, n |-> retentionMonths]
    /\ cutoffOut' = calculateCutoffDate(now, retentionMonths)
    /\ UNCHANGED <<now, expenseBuild, expenses, nextExpId, users, analyses,
                   nextAnId, runs, quiet, limiter, lastReq, reqCount, preview,
                   previewCalls, global, areqs, analysisBuild, adminLimiter, generalLimiter, job, scheduler,
                   putReq>>

NextCutoff == \E n \in 1..12 : ComputeCutoff(n)

SpecCutoff == InitCutoff /\ [][NextCutoff]_vars

-----------------------------------------------------------------------------
(* Specification of the retention engine *)

\* occurrence dates around the cutoffs of 2025-03-15: the last day before the
\* 3-month cutoff, the cutoff day at midnight and later that day, last week
RetentionDates == {Instant(2024, 10, 30, 0), Instant(2024, 11, 1, 0),
                   Instant(2024, 11, 1, 1), Instant(2025, 2, 10, 0)}

\* an analysis of a week of November 2024 kept for owner A
OldAnalysis ==
    [id |-> 0, userId |-> "A", weekStartDate |-> Instant(2024, 10, 4, 0),
     computed |-> Aggregate({[id |-> 0, userId |-> "A",
                              date |-> Instant(2024, 10, 5, 0), amount |-> 10,
                              category |-> "Food"]}, Instant(2024, 10, 4, 0)),
     src |-> {"A"}, createdFor |-> "A", ai |-> NoSuggestions]

RetentionAmounts == {10}

\* A keeps the default window; B has chosen one month, or is suspended, or
\* has an account younger than a week, or is deactivated
RetentionUsers ==
    {[o \in Owners |-> IF o = "A" THEN UserDoc(0, TRUE, "active", TRUE) ELSE b] :
        b \in {UserDoc(1, TRUE, "active", TRUE), UserDoc(0, TRUE, "suspended", TRUE),
               UserDoc(0, TRUE, "active", FALSE), UserDoc(0, FALSE, "active", TRUE)}}

SomeCreateExpense ==
    \E o \in Owners, d \in RetentionDates, amt \in RetentionAmounts :
        CreateExpense(o, d, amt, "Food")

RetentionWindows == {1, 3}

\* a store that holds expenses already: A's of the last day before the
\* 3-month cutoff and of the cutoff day, B's of the last day before it
SeedDocs ==
    {[id |-> 1, userId |-> "A", date |-> Instant(2024, 10, 30, 0),
      amount |-> 10, category |-> "Food"],
     [id |-> 2, userId |-> "A", date |-> Instant(2024, 11, 1, 0),
      amount |-> 10, category |-> "Food"],
     [id |-> 3, userId |-> "B", date |-> Instant(2024, 10, 30, 0),
      amount |-> 10, category |-> "Food"]}

\* cleanupUser invocations, one after the other, next to expense writes
Init ==
    /\ now = Today
    /\ expenseBuild \in {"named", "part006"}
    /\ analysisBuild = "part001"
    /\ expenses = {}
    /\ nextExpId = 1
    /\ analyses = {OldAnalysis}
    /\ users = PlainUsers
    /\ InitCommon

Next ==
    \/ SomeCreateExpense
    \/ \E o \in Owners, n \in RetentionWindows : triggerUserCleanup(o, n)
    \/ \E r \in RunIds : cleanupUserExpensesQuery(r)
    \/ \E r \in RunIds : cleanupUserExpensesDelete(r)
    \/ \E r \in RunIds : cleanupUserAnalysis(r)
    \/ \E r \in RunIds : cleanupUserReturn(r)
    \/ \E r \in RunIds : triggerUserCleanupReturn(r)

Spec == Init /\ [][Next]_vars

\* POST /cleanup requests on a store that holds expenses
InitGate ==
    /\ now = Today
    /\ expenseBuild \in {"named", "part006"}
    /\ analysisBuild = "part001"
    /\ expenses = SeedDocs
    /\ nextExpId = Cardinality(SeedDocs) + 1
    /\ analyses = {OldAnalysis}
    /\ users \in RetentionUsers
    /\ InitCommon

NextGate ==
    \/ \E o \in Owners, conf \in Confirmations : PostCleanup(o, conf)
    \/ \E r \in RunIds : cleanupUserExpensesQuery(r)
    \/ \E r \in RunIds : cleanupUserExpensesDelete(r)
    \/ \E r \in RunIds : cleanupUserAnalysis(r)
    \/ \E r \in RunIds : cleanupUserReturn(r)
    \/ \E r \in RunIds : PostCleanupFinish(r)

SpecGate == InitGate /\ [][NextGate]_vars

\* POST /cleanup requests over several windows of the rate limiter
InitLimiter ==
    /\ now = Today
    /\ expenseBuild = "named"
    /\ analysisBuild = "part001"
    /\ expenses = SeedDocs
    /\ nextExpId = Cardinality(SeedDocs) + 1
    /\ analyses = {OldAnalysis}
    /\ users = PlainUsers
    /\ InitCommon

NextLimiter ==
    \/ \E o \in Owners, conf \in {ConfirmationText, ""} : PostCleanup(o, conf)
    \/ \E o \in Owners : cleanupRateLimitWindowEnds(o)
    \/ \E r \in RunIds : cleanupUserExpensesQuery(r)
    \/ \E r \in RunIds : cleanupUserExpensesDelete(r)
    \/ \E r \in RunIds : cleanupUserAnalysis(r)
    \/ \E r \in RunIds : cleanupUserReturn(r)
    \/ \E r \in RunIds : PostCleanupFinish(r)

SpecLimiter == InitLimiter /\ [][NextLimiter]_vars

\* the admin route: A is an administrator, B is not
AdminUsers ==
    {[o \in Owners |->
        IF o = "A" THEN [UserDoc(0, TRUE, "active", TRUE) EXCEPT !.role = ra]
        ELSE UserDoc(0, TRUE, "active", TRUE)] : ra \in {"admin", "super_admin"}}

InitAdmin ==
    /\ now = Today
    /\ expenseBuild = "named"
    /\ analysisBuild = "part001"
    /\ expenses = SeedDocs
    /\ nextExpId = Cardinality(SeedDocs) + 1
    /\ analyses = {OldAnalysis}
    /\ users \in AdminUsers
    /\ InitCommon

NextAdmin ==
    \/ \E o \in Owners, conf \in Confirmations : PostAdminCleanup(o, conf)
    \/ adminCleanupRateLimitWindowEnds
    \/ cleanupAllUsersCheck
    \/ \E r \in RunIds : cleanupUserExpensesQuery(r)
    \/ \E r \in RunIds : cleanupUserExpensesDelete(r)
    \/ \E r \in RunIds : cleanupUserAnalysis(r)
    \/ \E r \in RunIds : cleanupUserReturn(r)
    \/ cleanupAllUsersCollect
    \/ PostAdminCleanupFinish

SpecAdmin == InitAdmin /\ [][NextAdmin]_vars

\* PUT /settings requests: B's account is suspended
InitSettings ==
    /\ now = Today
    /\ expenseBuild = "named"
    /\ analysisBuild = "part001"
    /\ expenses = SeedDocs
    /\ nextExpId = Cardinality(SeedDocs) + 1
    /\ analyses = {OldAnalysis}
    /\ users = [PlainUsers EXCEPT !["B"] = UserDoc(0, TRUE, "suspended", TRUE)]
    /\ InitCommon

NextSettings == \E o \in Owners, months \in SettingsInputs : PutSettings(o, months)

SpecSettings == InitSettings /\ [][NextSettings]_vars

\* previews next to expense writes
InitPreview ==
    /\ now = Today
    /\ expenseBuild \in {"named", "part006"}
    /\ analysisBuild = "part001"
    /\ expenses = {}
    /\ nextExpId = 1
    /\ analyses = {OldAnalysis}
    /\ users \in RetentionUsers
    /\ InitCommon

NextPreview ==
    \/ SomeCreateExpense
    \/ \E o \in Owners, id \in 1..MaxExpenses : DeleteExpense(o, id)
    \/ \E o \in Owners : GetPreview(o)

SpecPreview == InitPreview /\ [][NextPreview]_vars

\* the global cleanup (cron or manual trigger) next to expense writes
NextGlobal ==
    \/ SomeCreateExpense
    \/ cleanupAllUsersStart
    \/ cleanupAllUsersCheck
    \/ \E r \in RunIds : cleanupUserExpensesQuery(r)
    \/ \E r \in RunIds : cleanupUserExpensesDelete(r)
    \/ \E r \in RunIds : cleanupUserAnalysis(r)
    \/ \E r \in RunIds : cleanupUserReturn(r)
    \/ cleanupAllUsersCollect
    \/ performDataCleanupReturn

SpecGlobal == InitPreview /\ [][NextGlobal]_vars

\* the global cleanup overlapping with manual triggers
InitOverlap ==
    /\ now = Today
    /\ expenseBuild \in {"named", "part006"}
    /\ analysisBuild = "part001"
    /\ expenses \in SUBSET SeedDocs
    /\ nextExpId = Cardinality(SeedDocs) + 1
    /\ analyses \in {{}, {OldAnalysis}}
    /\ users = PlainUsers
    /\ InitCommon

NextOverlap ==
    \/ cleanupAllUsersStart
    \/ cleanupAllUsersCheck
    \/ \E o \in Owners : triggerUserCleanup(o, RetentionOf(users[o]))
    \/ \E r \in RunIds : cleanupUserExpensesQuery(r)
    \/ \E r \in RunIds : cleanupUserExpensesDelete(r)
    \/ \E r \in RunIds : cleanupUserAnalysis(r)
    \/ \E r \in RunIds : cleanupUserReturn(r)
    \/ \E r \in RunIds : triggerUserCleanupReturn(r)
    \/ cleanupAllUsersCollect
    \/ performDataCleanupReturn

SpecOverlap == InitOverlap /\ [][NextOverlap]_vars

\* the global cleanup with failing stores
InitFaults ==
    /\ now = Today
    /\ expenseBuild = "named"
    /\ analysisBuild = "part001"
    /\ expenses \in {SeedDocs \ {d} : d \in SeedDocs} \cup {SeedDocs}
    /\ nextExpId = Cardinality(SeedDocs) + 1
    /\ analyses = {OldAnalysis}
    /\ users = PlainUsers
    /\ InitCommon

NextFaults ==
    \/ cleanupAllUsersStart
    \/ getAllActiveThrows
    \/ cleanupAllUsersCheck
    \/ shouldCleanupUserThrows
    \/ \E r \in RunIds : cleanupUserExpensesQuery(r)
    \/ \E r \in RunIds : cleanupUserExpensesQueryThrows(r)
    \/ \E r \in RunIds : cleanupUserExpensesDelete(r)
    \/ \E r \in RunIds : cleanupUserExpensesDeleteThrows(r)
    \/ \E r \in RunIds : cleanupUserAnalysis(r)
    \/ \E r \in RunIds : cleanupUserAnalysisThrows(r)
    \/ \E r \in RunIds : cleanupUserReturn(r)
    \/ cleanupAllUsersCollect
    \/ cleanupAllUsersCatch
    \/ performDataCleanupReturn
    \/ performDataCleanupThrows

SpecFaults == InitFaults /\ [][NextFaults]_vars

\* owner A with one stale expense more than a batch holds
BatchSeed ==
    {[id |-> k, userId |-> "A", date |-> Instant(2024, 10, 30, 0),
      amount |-> 10, category |-> "Food"] : k \in 1..(batchSize + 1)}

InitBatches ==
    /\ now = Today
    /\ expenseBuild = "named"
    /\ analysisBuild = "part001"
    /\ expenses = BatchSeed
    /\ nextExpId = Cardinality(BatchSeed) + 1
    /\ analyses = {}
    /\ users = PlainUsers
    /\ InitCommon

NextBatches ==
    \/ triggerUserCleanup("A", defaultRetentionMonths)
    \/ cleanupUserExpensesQuery("manual")
    \/ cleanupUserExpensesDelete("manual")
    \/ cleanupUserExpensesDeleteThrows("manual")
    \/ cleanupUserExpensesBatchDelay("manual")
    \/ cleanupUserAnalysis("manual")
    \/ cleanupUserReturn("manual")
    \/ triggerUserCleanupReturn("manual")

SpecBatches == InitBatches /\ [][NextBatches]_vars

\* the three scheduled jobs, the cleanup on an empty expense store
InitJobs ==
    /\ now = Today
    /\ expenseBuild = "named"
    /\ analysisBuild = "part001"
    /\ expenses = {}
    /\ nextExpId = 1
    /\ analyses = {}
    /\ users \in RetentionUsers
    /\ InitCommon

NextJobs ==
    \/ \E n \in 0..MaxJobUsers : sendDailySummaries(n)
    \/ sendDailySummariesThrows
    \/ sendDailySummariesBatch
    \/ \E u \in 1..MaxJobUsers, outcome \in {"sent", "skipped", "failed"} :
          sendDailySummary(u, outcome)
    \/ \E n \in 0..MaxJobUsers : sendWeeklyReports(n)
    \/ sendWeeklyReportsThrows
    \/ jobEnds
    \/ cleanupAllUsersStart
    \/ getAllActiveThrows
    \/ cleanupAllUsersCheck
    \/ shouldCleanupUserThrows
    \/ performDataCleanupReturn
    \/ performDataCleanupThrows

SpecJobs == InitJobs /\ [][NextJobs]_vars

\* the daily job alone, for one user more than a batch holds
DailyUsers == summaryBatchSize + 1

InitDaily ==
    /\ now = Today
    /\ expenseBuild = "named"
    /\ analysisBuild = "part001"
    /\ expenses = {}
    /\ nextExpId = 1
    /\ analyses = {}
    /\ users = PlainUsers
    /\ InitCommon

NextDaily ==
    \/ sendDailySummaries(DailyUsers)
    \/ sendDailySummariesBatch
    \/ \E u \in 1..DailyUsers, outcome \in {"sent", "skipped", "failed"} :
          sendDailySummary(u, outcome)
    \/ sendDailySummariesDelay
    \/ jobEnds

SpecDaily == InitDaily /\ [][NextDaily]_vars

\* owner A keeps one month, and has an expense of January 2024 and one of
\* November 2024
WindowSeed ==
    {[id |-> 1, userId |-> "A", date |-> Instant(2024, 0, 10, 0),
      amount |-> 10, category |-> "Food"],
     [id |-> 2, userId |-> "A", date |-> Instant(2024, 10, 30, 0),
      amount |-> 10, category |-> "Food"]}

InitWindow ==
    /\ now = Today
    /\ expenseBuild = "named"
    /\ analysisBuild = "part001"
    /\ expenses = WindowSeed
    /\ nextExpId = Cardinality(WindowSeed) + 1
    /\ analyses = {}
    /\ users = [PlainUsers EXCEPT !["A"].months = 1]
    /\ InitCommon

\* the global run next to PUT /settings requests of owner A
NextWindow ==
    \/ \E v \in {1, 12} : PutSettings("A", Months("number", v, TRUE))
    \/ cleanupAllUsersStart
    \/ cleanupAllUsersCheck
    \/ cleanupUserExpensesQuery("global")
    \/ cleanupUserExpensesDelete("global")
    \/ cleanupUserAnalysis("global")
    \/ cleanupUserReturn("global")
    \/ cleanupAllUsersCollect
    \/ performDataCleanupReturn

SpecWindow == InitWindow /\ [][NextWindow]_vars

\* owner A with two expenses before the 3-month cutoff (October and
\* November 2024), who moves them to last Monday and back
UpdateSeed ==
    {[id |-> 1, userId |-> "A", date |-> Instant(2024, 9, 15, 0),
      amount |-> 10, category |-> "Food"],
     [id |-> 2, userId |-> "A", date |-> Instant(2024, 10, 30, 0),
      amount |-> 10, category |-> "Food"]}

UpdateDates == {Instant(2024, 10, 30, 0), Instant(2025, 2, 10, 0)}

InitUpdate ==
    /\ now = Today
    /\ expenseBuild = "named"
    /\ analysisBuild = "part001"
    /\ expenses = UpdateSeed
    /\ nextExpId = Cardinality(UpdateSeed) + 1
    /\ analyses = {}
    /\ users = PlainUsers
    /\ InitCommon

NextUpdate ==
    \/ \E e \in UpdateSeed, d \in UpdateDates : UpdateExpense("A", e.id, d)
    \/ triggerUserCleanup("A", defaultRetentionMonths)
    \/ cleanupUserExpensesQuery("manual")
    \/ cleanupUserExpensesDelete("manual")
    \/ cleanupUserAnalysis("manual")
    \/ cleanupUserReturn("manual")
    \/ triggerUserCleanupReturn("manual")

SpecUpdate == InitUpdate /\ [][NextUpdate]_vars

\* PUT /settings and POST /cleanup of owner A at the same time
NextLost ==
    \/ PutSettingsFind("A", Months("number", 6, TRUE))
    \/ PutSettingsUpdate
    \/ PostCleanup("A", ConfirmationText)
    \/ cleanupUserExpensesQuery("manual")
    \/ cleanupUserExpensesDelete("manual")
    \/ cleanupUserAnalysis("manual")
    \/ cleanupUserReturn("manual")
    \/ PostCleanupFinish("manual")

SpecLost == InitLimiter /\ [][NextLost]_vars

\* the lifecycle methods of the scheduler, called in any order
NextScheduler ==
    \/ initialize
    \/ stopAllJobs
    \/ startAllJobs
    \/ \E jobName \in JobNames : restartJob(jobName)

SpecScheduler == InitDaily /\ [][NextScheduler]_vars

-----------------------------------------------------------------------------
(* Specification of the weekly analysis *)

Week == Instant(2025, 0, 20, 0)       \* Monday 2025-01-20

\* expenses of the week: A's of Monday and (uncategorised) of Wednesday,
\* B's of Monday
AnalysisSeed ==
    {[id |-> 1, userId |-> "A", date |-> Week, amount |-> 10,
      category |-> "Food"],
     [id |-> 2, userId |-> "A", date |-> Week + 4, amount |-> 25,
      category |-> ""],
     [id |-> 3, userId |-> "B", date |-> Week, amount |-> 10,
      category |-> "Food"]}

\* concurrent requests on a store that holds the week's expenses
InitAnalysis ==
    /\ now = Today
    /\ expenseBuild = "named"
    /\ analysisBuild \in {"part001", "part002"}
    /\ expenses \in SUBSET AnalysisSeed
    /\ nextExpId = Cardinality(AnalysisSeed) + 1
    /\ analyses = {}
    /\ users = PlainUsers
    /\ InitCommon

NextAnalysis ==
    \/ \E q \in AReqIds, u \in Owners : getWeeklyAnalysis(q, u, Week)
    \/ \E q \in AReqIds, u \in Owners : generateWeeklyAnalysis(q, u, Week)
    \/ \E q \in AReqIds : getWeeklyAnalysisFind(q)
    \/ \E q \in AReqIds : createWeeklyAnalysisCompute(q)
    \/ \E q \in AReqIds : findOneAndUpdateFind(q)
    \/ \E q \in AReqIds : findOneAndUpdateWrite(q)
    \/ \E q \in AReqIds : findOneAndUpdateCreateThrows(q)
    \/ \E q \in AReqIds : analysisResponseSent(q)

SpecAnalysis == InitAnalysis /\ [][NextAnalysis]_vars

\* a week of owner A in which one amount is large next to the others: an
\* uncategorised expense of Wednesday and two of a category of Monday and
\* Tuesday
Large == Pow2(MantissaBits)

SumSeed ==
    {[id |-> 1, userId |-> "A", date |-> Week + 4, amount |-> Large,
      category |-> ""],
     [id |-> 2, userId |-> "A", date |-> Week + 2, amount |-> 1,
      category |-> "Food"],
     [id |-> 3, userId |-> "A", date |-> Week, amount |-> 1,
      category |-> "Food"]}

InitSums ==
    /\ now = Today
    /\ expenseBuild = "named"
    /\ analysisBuild \in {"part001", "part002"}
    /\ expenses \in SUBSET SumSeed
    /\ nextExpId = Cardinality(SumSeed) + 1
    /\ analyses = {}
    /\ users = PlainUsers
    /\ InitCommon

SpecSums == InitSums /\ [][NextAnalysis]_vars

\* requests one at a time, next to deletions of the week's expenses
InitGenerate ==
    /\ now = Today
    /\ expenseBuild = "named"
    /\ analysisBuild \in {"part001", "part002"}
    /\ expenses = AnalysisSeed
    /\ nextExpId = Cardinality(AnalysisSeed) + 1
    /\ analyses = {}
    /\ users = PlainUsers
    /\ InitCommon

NextGenerate ==
    \/ \E o \in Owners, e \in AnalysisSeed : DeleteExpense(o, e.id)
    \/ \E u \in Owners : getWeeklyAnalysis(1, u, Week)
    \/ \E u \in Owners : generateWeeklyAnalysis(1, u, Week)
    \/ getWeeklyAnalysisFind(1)
    \/ createWeeklyAnalysisCompute(1)
    \/ findOneAndUpdateFind(1)
    \/ findOneAndUpdateWrite(1)
    \/ findOneAndUpdateCreateThrows(1)
    \/ analysisResponseSent(1)

SpecGenerate == InitGenerate /\ [][NextGenerate]_vars

\* generate and AI-suggestion writes on the same week
NextSuggestions ==
    \/ NextGenerate
    \/ \E n \in 1..MaxSuggestions : getAISuggestions(Week, n)
    \/ \E n \in 1..MaxSuggestions : updateAISuggestions(Week, n)

SpecSuggestions == InitGenerate /\ [][NextSuggestions]_vars

-----------------------------------------------------------------------------
(* Properties *)

\* the instant cutoffDate(N) of the current date
CutoffInstant(n) == DateInstant(calculateCutoffDate(now, n))

C3_DeletionSetStrictlyBeforeCutoff ==
    \A r \in RunIds :
        (runs[r].pc = "deleting" /\ runs[r].i = 0 /\ runs[r].clean) =>
            SeqToSet(runs[r].list) =
                {e \in expenses : /\ e.userId = runs[r].userId
                                  /\ e.date < CutoffInstant(runs[r].months)}

\* the day of an instant
DayOf(t) == t \div 2

\* C4: an answered GET /api/analysis/weekly returns an analysis computed
\* from the requester's expenses only, and every stored analysis holds
\* figures computed from the expenses of the owner it was created for.
C4_AnalysisScopedToOwner ==
    /\ \A q \in AReqIds :
            (areqs[q].pc = "done" /\ areqs[q].kind = "get" /\ areqs[q].status = 200)
                => areqs[q].resp.src \subseteq {areqs[q].userId}
    /\ \A a \in analyses : a.src \subseteq {a.createdFor}

\* C5: the analysis store holds at most one record per owner and
\* week-start day.
C5_OneAnalysisPerOwnerWeek ==
    \A a, b \in analyses :
        (/\ a.userId = b.userId
         /\ a.createdFor = b.createdFor
         /\ DayOf(a.weekStartDate) = DayOf(b.weekStartDate)) => a.id = b.id

\* C6: when generate has answered 201 for (owner, week) and no expense was
\* written since it read them, every stored analysis of that week has the
\* totals of the owner's current expenses of the week, and all computed
\* fields equal to their aggregate when there are any.
C6_GenerateReplacesComputedFields ==
    \A q \in AReqIds :
        (/\ areqs[q].pc = "done" /\ areqs[q].kind = "generate"
         /\ areqs[q].status = 201 /\ ~areqs[q].stale) =>
            LET w == areqs[q].week
                S == find(expenseBuild, expenses, w, WeekEnd(w), areqs[q].userId)
            IN  /\ S # {} => findByWeek(analyses, w, NoUser) # {}
                /\ \A a \in findByWeek(analyses, w, NoUser) :
                        /\ a.computed.totalAmount = SumAmounts(S)
                        /\ a.computed.totalExpenses = Cardinality(S)
                        /\ S # {} => a.computed = Aggregate(S, w)

\* C7: when a manual cleanupUser(owner, N) and the global job's
\* cleanupUser(owner, N) overlapped and both have returned, what the two
\* removed is exactly the owner's expenses before the cutoff: each removed
\* expense is the owner's and dated before the cutoff, and no expense of
\* the owner dated before the cutoff is left.
C7_OverlappingRunsRemoveExactlyStale ==
    (/\ runs["manual"].pc = "done" /\ runs["global"].pc = "done"
     /\ runs["manual"].overlapped /\ runs["global"].overlapped
     /\ runs["manual"].userId = runs["global"].userId
     /\ runs["manual"].months = runs["global"].months) =>
        LET o == runs["manual"].userId
            cutoffT == CutoffInstant(runs["manual"].months)
        IN  /\ \A r \in RunIds : \A e \in SeqToSet(runs[r].list) :
                    e.userId = o /\ e.date < cutoffT
            /\ \A e \in expenses : e.userId = o => e.date >= cutoffT

\* C9: a getCleanupPreview call changes neither the expense store nor the
\* analysis store nor the user store, and a call that follows another one
\* with no store write in between returns the same preview (count, total
\* amount, monthly breakdown, oldest and newest date).
C9_PreviewReadOnlyAndStable ==
    [][\A o \in Owners :
            previewCalls'[o] = previewCalls[o] + 1 =>
                /\ UNCHANGED <<expenses, analyses, users>>
                /\ (previewCalls[o] >= 1 => preview'[o] = preview[o])]_vars

\* A has been shown the same non-empty preview twice in a row
C9_Witness ==
    /\ previewCalls["A"] >= 2
    /\ preview["A"].totalExpenses > 0
    /\ \E e \in expenses : e.userId = "A"

\* the owners whose store at the start of the global job held an expense
\* dated before their own cutoff
StaleOwners(docs) ==
    {o \in Owners : \E e \in docs :
        e.userId = o /\ e.date < CutoffInstant(RetentionOf(users[o]))}

\* C10: at the return of an undisturbed cleanupAllUsers, processedUsers is
\* the number of active owners, cleanedUsers the number of active owners
\* that had an expense before their own cutoff, errors is empty, and every
\* expense removed was dated before its owner's cutoff.
C10_CleansExactlyStaleOwners ==
    (global.pc = "done" /\ ~global.disturbed) =>
        /\ global.processedUsers = Cardinality({o \in Owners : users[o].isActive})
        /\ global.cleanedUsers =
                Cardinality({o \in StaleOwners(global.startExpenses) : users[o].isActive})
        /\ global.errors = <<>>
        /\ \A e \in global.startExpenses \ expenses :
                e.date < CutoffInstant(RetentionOf(users[e.userId]))

\* C8: the cutoff returned for retention window N at the current date is
\* midnight of day 1 of the month reached by stepping N calendar months back
\* from the current month, the year decreasing at each step past January; it
\* is determined by N and the current date alone.
C8_CutoffIsCalendarSubtraction ==
    cutoffIn.n > 0 =>
        LET ref == MonthsBefore([y |-> cutoffIn.now.y, m |-> cutoffIn.now.m],
                                cutoffIn.n)
        IN  cutoffOut = [y |-> ref.y, m |-> ref.m, d |-> 1]

\* N = 3 on 2025-03-15 gives 2024-12-01
C8_Witness ==
    /\ cutoffIn = [now |-> Today, n |-> 3]
    /\ cutoffOut = [y |-> 2024, m |-> 11, d |-> 1]

\* the expenses of owner u that a cleanupUser without failure removes from
\* docs: those the query of cleanupUserExpenses returns
Matched(docs, u) ==
    find(expenseBuild, docs, Epoch, CutoffInstant(RetentionOf(users[u])), u)

\* C11: at the return of cleanupAllUsers every active owner has been
\* processed (processedUsers = totalUsers) whatever failed on the way, and
\* every owner of the run that met no failure of its own, the owners after
\* a failing one included, has lost exactly the expenses that its
\* cleanupUser removes when nothing fails.
C11_FailureDoesNotAbortRun ==
    global.pc = "done" =>
        /\ global.processedUsers = global.totalUsers
        /\ \A k \in 1..Len(global.snapshot) :
                LET u == global.snapshot[k].id
                IN  u \notin (global.failed \cup global.partial) =>
                        {e \in expenses : e.userId = u} =
                            {e \in global.startExpenses : e.userId = u}
                                \ Matched(global.startExpenses, u)

\* cleanupUser of A threw, and B, handled after A, has been cleaned
C11_Witness ==
    /\ global.pc = "done"
    /\ Len(global.errors) = 1
    /\ global.errors[1].userId = "A"
    /\ global.processedUsers = 2
    /\ global.cleanedUsers = 1
    /\ \E e \in global.startExpenses \ expenses : e.userId = "B"
    /\ \E e \in expenses : e.userId = "A" /\ e \in Matched(expenses, "A")

\* C12: at the return of cleanupAllUsers every owner whose stale-data check
\* (shouldCleanupUser) or whose cleanupUser failed has an entry in the
\* returned errors list.
C12_EveryOwnerErrorRecorded ==
    global.pc = "done" =>
        \A u \in global.failed :
            \E i \in 1..Len(global.errors) : global.errors[i].userId = u

\* C13: a cleanupUser whose lookup of old analyses threw does not throw: it
\* goes on to return its result with analysis.deleted = 0 and
\* analysis.skipped = true, expenses.deleted counts the expenses it removed,
\* and these stay removed.
C13_AnalysisFailureIsSkipped ==
    \A r \in RunIds :
        runs[r].anFault =>
            /\ runs[r].pc \in {"return", "done"}
            /\ runs[r].skipped
            /\ runs[r].anDeleted = 0
            /\ runs[r].deleted = Len(runs[r].list) - Cardinality(runs[r].kept)
            /\ \A k \in 1..Len(runs[r].list) :
                    runs[r].list[k].id \notin runs[r].kept =>
                        runs[r].list[k] \notin expenses

\* a cleanupUser of A has returned after it removed an expense and its
\* analysis lookup failed; A's old analysis is still stored
C13_Witness ==
    /\ runs["global"].pc = "done"
    /\ runs["global"].userId = "A"
    /\ runs["global"].anFault
    /\ runs["global"].skipped
    /\ runs["global"].deleted >= 1
    /\ OldAnalysis \in analyses

\* C19: no job throws, and every job that has returned has returned a
\* result with an error list.
C19_JobsNeverThrow ==
    /\ global.pc # "thrown"
    /\ job.pc # "thrown"
    /\ job.pc = "returned" => job.defined

C18_YoungOrBlockedRejected ==
    [][\A o \in Owners :
            (/\ reqCount'[o] # reqCount[o]
             /\ (~users[o].oldEnough \/ users[o].status \in {"suspended", "banned"})) =>
                /\ lastReq'.status \in {403, 429}
                /\ UNCHANGED <<expenses, analyses, users, runs>>]_vars

\* C14: the first admin-cleanup request of the window, sent by an admin or
\* super_admin with confirmation 'GLOBAL_CLEANUP_CONFIRMED', passes the
\* confirmation gate and starts the global cleanup.
C14_AdminConfirmationAccepted ==
    [][(/\ adminLimiter = 0 /\ adminLimiter' = 1
        /\ users[lastReq'.o].role \in {"admin", "super_admin"}
        /\ lastReq'.conf = "GLOBAL_CLEANUP_CONFIRMED") =>
            (lastReq'.gate = "adminHandler" /\ global'.caller = "api")]_vars

BadMonths(months) ==
    \/ months.t \in {"undefined", "text"}
    \/ ~months.int
    \/ months.v < 1
    \/ months.v > 12

C20_SevenDailyTotals ==
    \A q \in AReqIds :
        (areqs[q].pc = "done" /\ areqs[q].status \in {200, 201}) =>
            LET d == areqs[q].resp.computed.dailyTotals
            IN  /\ Len(d) = 7
                /\ \A k \in 1..7 :
                        /\ d[k].date = areqs[q].week + 2 * (k - 1)
                        /\ d[k].expenseCount = 0 => d[k].total = 0


\* the expenses a request in flight has aggregated
Aggregated(f) == find(expenseBuild, expenses, f.week, WeekEnd(f.week), f.arg)

RECURSIVE SumOf(_, _)
SumOf(q, field) ==
    IF q = <<>> THEN 0
    ELSE (IF field = "total" THEN Head(q).total ELSE Head(q).count)
         + SumOf(Tail(q), field)

\* every expense is counted in exactly one category, an expense without a
\* category in 'Other', and the counts add up to totalExpenses
CategoriesPartition(f) ==
    LET S == Aggregated(f)
        b == f.data.categoryBreakdown
    IN  /\ SumOf(b, "count") = f.data.totalExpenses
        /\ f.data.totalExpenses = Cardinality(S)
        /\ \A i, j \in 1..Len(b) : b[i].category = b[j].category => i = j
        /\ \A e \in S :
              \E i \in 1..Len(b) :
                 b[i].category = (IF e.category = "" THEN "Other" ELSE e.category)
        /\ \A i \in 1..Len(b) :
              b[i].count = Cardinality({e \in S :
                 (IF e.category = "" THEN "Other" ELSE e.category) = b[i].category})

\* the counts and the assignment of expenses to categories of every analysis
\* computed from an expense set that did not change since
C21_CountsAndCategories ==
    \A q \in AReqIds :
       (areqs[q].pc \in {"upsertFind", "upsertWrite"} /\ ~areqs[q].stale)
          => CategoriesPartition(areqs[q])

\* C21: for every non-empty set of expenses of a week, the computed analysis
\* has category totals that add up to totalAmount, category counts that add
\* up to totalExpenses, and every expense counted in exactly one category
\* (a missing or empty category counted as 'Other')
C21_CategoryBreakdownPartitions ==
    \A q \in AReqIds :
       (areqs[q].pc \in {"upsertFind", "upsertWrite"} /\ ~areqs[q].stale)
          => /\ SumOf(areqs[q].data.categoryBreakdown, "total")
                  = areqs[q].data.totalAmount
             /\ CategoriesPartition(areqs[q])

\* an analysis of three expenses in two categories, one of them 'Other'
C21_Witness ==
    \E q \in AReqIds :
       /\ areqs[q].pc = "upsertWrite"
       /\ areqs[q].data.totalExpenses = 3
       /\ Len(areqs[q].data.categoryBreakdown) = 2
       /\ areqs[q].data.categoryBreakdown[1].category = "Other"

\* C22: a regeneration that finds the stored record of its week replaces the
\* computed fields by the new ones and leaves the aiSuggestions payload as
\* it was; only an AI-suggestion write changes the payload of a record
C22_RegenerateKeepsSuggestions ==
    [][
       /\ \A q \in AReqIds :
            (findOneAndUpdateWrite(q) /\ areqs[q].existing # 0) =>
               \A a \in analyses : a.id = areqs[q].existing =>
                  \E b \in analyses' : /\ b.id = a.id
                                        /\ b.ai = a.ai
                                        /\ b.computed = areqs[q].data
       /\ \/ \E n \in 1..MaxSuggestions :
                getAISuggestions(Week, n) \/ updateAISuggestions(Week, n)
          \/ \A a \in analyses : \A b \in analyses' :
                b.id = a.id => b.ai = a.ai
      ]_vars

\* a record whose payload was made for totals that a later regeneration
\* replaced
C22_Witness ==
    \E a \in analyses :
       /\ a.ai.n # 0
       /\ a.ai.prompt # 0
       /\ a.ai.prompt # a.computed.totalAmount

\* the loop of cleanupUserExpenses is over for run r
LoopOver(r) ==
    runs[r].pc \in {"analysis", "return", "done"} /\ runs[r].list # <<>>

\* what a finished loop leaves: every expense found was attempted, the count
\* is that of the deletes that succeeded, and those expenses are gone
C23_LoopResult ==
    \A r \in RunIds : LoopOver(r) =>
       LET totalFound == Len(runs[r].list)
           found == {runs[r].list[k].id : k \in 1..totalFound}
       IN  /\ runs[r].i = totalFound
           /\ runs[r].kept \subseteq found
           /\ runs[r].deleted = totalFound - Cardinality(runs[r].kept)
           /\ runs[r].deleted >= 0 /\ runs[r].deleted <= totalFound
           /\ runs[r].cutoff = DateInstant(calculateCutoffDate(now, runs[r].months))
           /\ \A e \in expenses : e.id \in found => e.id \in runs[r].kept

\* a step of the loop, failing or not, goes on to the next expense
C23_LoopStep ==
    \A r \in RunIds :
       (runs[r].pc = "deleting" /\ runs'[r] # runs[r] /\ runs'[r].i # runs[r].i)
          => /\ runs'[r].i = runs[r].i + 1
             /\ runs'[r].pc = AfterDelete(runs'[r].i, Len(runs[r].list))
             /\ runs'[r].deleted - runs[r].deleted \in {0, 1}

\* C23: a delete that fails for one expense is skipped and the remaining
\* expenses of its batch and of the later batches are still attempted;
\* deletedExpenses is the number of deletes that succeeded, between 0 and
\* totalFound, and the call returns success with the cutoff used
C23_FailedDeleteIsSkipped ==
    /\ []C23_LoopResult
    /\ [][C23_LoopStep]_vars
    /\ [](\A r \in RunIds : runs[r].pc # "thrown")

\* a run over two batches that lost a delete in the first batch and went on
\* to delete the rest of it and the expense of the second batch
C23_Witness ==
    /\ runs["manual"].pc = "done"
    /\ Len(runs["manual"].list) = batchSize + 1
    /\ \E k \in 1..(batchSize - 1) :
          runs["manual"].kept = {runs["manual"].list[k].id}
    /\ runs["manual"].deleted = batchSize

\* C24: a failing send does not stop the others: when sendDailySummaries
\* returns its results, every eligible user's send has settled, sent +
\* skipped + failed is the number of eligible users, and errors has exactly
\* one entry for each failed user
C24_SendFailureIsIsolated ==
    (job.name = "daily" /\ job.pc = "returned" /\ job.defined) =>
        /\ job.settled = 1..job.n
        /\ job.sent + job.skipped + job.failed = job.n
        /\ Len(job.errors) = job.failed
        /\ \A k, l \in 1..Len(job.errors) :
              job.errors[k] = job.errors[l] => k = l

\* a run over two batches with a failed send in the first batch
C24_Witness ==
    /\ job.name = "daily" /\ job.pc = "returned"
    /\ job.n = summaryBatchSize + 1
    /\ job.failed = 1 /\ job.errors = <<1>>
    /\ job.sent = summaryBatchSize - 1 /\ job.skipped = 1

\* the batch a user belongs to
BatchOf(u) == (u - 1) \div summaryBatchSize

\* C25: at most 10 sends are in flight, all of them of one batch, and every
\* send of the batches before it has settled
C25_BatchesOfTen ==
    /\ Cardinality(job.inflight) <= 10
    /\ \A u \in job.inflight :
          /\ \A v \in job.inflight : BatchOf(v) = BatchOf(u)
          /\ \A v \in 1..job.n : BatchOf(v) < BatchOf(u) => v \in job.settled

\* the send of the second batch in flight after the ten of the first batch
\* have settled
C25_Witness ==
    /\ job.inflight = {summaryBatchSize + 1}
    /\ job.settled = 1..summaryBatchSize


\* the started tasks of a job name
Started(name) ==
    {t \in 1..Len(scheduler.tasks) :
        scheduler.tasks[t].name = name /\ scheduler.tasks[t].started}

\* C26: after any sequence of initialize, stopAllJobs, startAllJobs and
\* restartJob calls every job name has at most one started cron task
C26_OneStartedTaskPerName ==
    \A name \in JobNames : Cardinality(Started(name)) <= 1

\* while isInitialized is true, initialize changes neither the registry nor
\* a task
C26_InitializeTwiceIsNoOp ==
    [][(initialize /\ scheduler.isInitialized) =>
          /\ scheduler'.tasks = scheduler.tasks
          /\ scheduler'.jobs = scheduler.jobs]_vars

\* C27: the admin-cleanup limiter counts a request before its role and its
\* confirmation are checked: a request answered 403 for the role or 400 for
\* the confirmation is counted, and every request that follows a counted one
\* in the window is answered 429 and starts no global cleanup, whoever sends
\* it and whatever it confirms
C27_RejectedRequestUsesTheWindow ==
    [][/\ (lastReq' # lastReq /\ lastReq'.gate \in {"adminPermissions", "confirmation"})
            => adminLimiter' = adminLimiter + 1
       /\ (adminLimiter >= 1 /\ adminLimiter' = adminLimiter + 1)
            => /\ lastReq'.status = 429
               /\ lastReq'.gate = "adminRateLimit"
               /\ global' = global]_vars

\* an admin's request with the right confirmation answered 429 right after
\* a request of the same window that was rejected for the missing role, with
\* no global cleanup started
C27_Witness ==
    /\ adminLimiter = 2
    /\ lastReq.status = 429
    /\ lastReq.prev = "adminPermissions"
    /\ users[lastReq.o].role = "admin"
    /\ lastReq.conf = ConfirmationText
    /\ global = IdleGlobal
    /\ expenses = SeedDocs

\* the cutoff of the window an owner has stored now
StoredCutoff(o) == DateInstant(calculateCutoffDate(now, RetentionOf(users[o])))

\* C28: the global run deletes an owner's data with the window the owner
\* has stored at the time of the deletion: the window cleanupUser is called
\* with is the stored one, and no expense dated on or after the cutoff of
\* the stored window is deleted, also when the owner changes the window
\* while the run is in progress
C28_RunUsesStoredWindow ==
    [][/\ \A e \in expenses \ expenses' : e.date < StoredCutoff(e.userId)
       /\ (runs'["global"].pc = "expenses" /\ runs["global"].pc # "expenses")
            => runs'["global"].months = RetentionOf(users[runs'["global"].userId])
      ]_vars

\* C29: an expense that a cleanup deletes is dated before the cutoff at the
\* moment of its deletion, also when its owner moved its date after the
\* run read its deletion set
C29_DeletedExpenseIsStaleWhenDeleted ==
    [][\A e \in expenses :
          (\A f \in expenses' : f.id # e.id) =>
             \E r \in RunIds : /\ runs[r].pc = "deleting"
                                /\ e.date < runs[r].cutoff]_vars

\* C30: the write of a PUT /settings sets months to the new value and leaves
\* the stored lastCleanup as it is at that moment, so that the lastCleanup
\* written by a POST /cleanup that ran in between is not lost
C30_SettingsKeepLastCleanup ==
    [][(putReq.pc = "write" /\ putReq'.pc = "idle") =>
          /\ users'[putReq.o].months = putReq.months
          /\ users'[putReq.o].lastCleanup = users[putReq.o].lastCleanup]_vars
====
